---- MODULE Spec2Model ----
(***************************************************************************)
(* Model of the migration toolkit's persistence layer and CLI migrator:    *)
(*   - services/migration/test_run_manager.py  (TestRunManager)            *)
(*   - services/migration/stats_writer.py      (StatsWriter)               *)
(*   - migrate_cli.py                          (CLIDataMigrator, main)     *)
(* and of the units around them, each looked at on its own:                *)
(*   - services/data_processor.py, services/db_manager.py                  *)
(*   - utils/session_state.py, utils/comparison_utils.py                   *)
(*   - calude-monitor.py                       (loading session files)     *)
(* The specifications share the module: SpecTRM (threads calling one       *)
(* TestRunManager), SpecSW (threads calling one StatsWriter), SpecCLI (one *)
(* run of migrate_cli.main), their single-caller and single-path forms,    *)
(* and one specification per unit.                                         *)
(***************************************************************************)
EXTENDS Integers, Sequences, FiniteSets, TLC

VARIABLES
    \* ---- TestRunManager -------------------------------------------------
    clock,        \* wall clock in whole seconds (datetime.now())
    indexFile,    \* content of test_runs_index.json: the "test_runs" list
    trPc,         \* per thread: position inside create/update_test_run
    trOp,         \* per thread: the call in progress and its arguments
    trLocal,      \* per thread: index_data, the list read by _read_index
    trCalls,      \* number of calls started (bounded by MaxCalls)
    trCreated,    \* number of create_test_run calls that returned
    trApplied,    \* <<test_id, field>> of returned updates that found their run
    \* ---- StatsWriter ----------------------------------------------------
    files,        \* the three JSON files of the output directory, by name
    swLock,       \* StatsWriter._lock: 0 when free, else the holding thread
    swPos,        \* per thread: index into the script of the call (0 = idle)
    swPhase,      \* per thread: "call", or "dump" inside an open file
    swOp,         \* per thread: the call in progress and its arguments
    swLocal,      \* per thread: the document read by _read_json
    swRet,        \* per thread: what the last read_* call returned
    swCalls,      \* number of calls started (bounded by MaxCalls)
    swAdds,       \* number of add_batch_stat calls that returned
    swFilesDone,  \* number of complete_file calls that returned
    swBatchSet,   \* whether an update_progress(current_batch=...) call returned
    swReset,      \* whether start_migration was called
    \* ---- CLIDataMigrator / main ------------------------------------------
    cliPc,          \* position of the main thread
    num_connections,\* --connections
    batch_size,     \* --batch-size
    numFiles,       \* len(json_files) found by migrate_all_files
    fileIdx,        \* 1-based position of the file loop in sorted(json_files)
    curFile,        \* the file being processed: what it holds
    batchNo,        \* next batch of the sequential loop / of the submit loop
    total_inserted, \* the local counter of insert_batch / _insert_batch_parallel
    batchState,     \* per batch of the current file: state of its insert
    attempts,       \* per batch of the current file: times its insert was started
    conns,          \* per submitted batch: its dedicated connection
    nextConn,       \* number of connections create_connection has opened
    collected,      \* batches whose future the as_completed loop has handled
    pending,        \* exception unwinding through the executor's with block
    results,        \* the results list of migrate_all_files
    interruptedAt   \* file position at which KeyboardInterrupt arrived, else 0

trVars == <<clock, indexFile, trPc, trOp, trLocal, trCalls, trCreated, trApplied>>
swVars == <<files, swLock, swPos, swPhase, swOp, swLocal,
            swRet, swCalls, swAdds, swFilesDone, swBatchSet, swReset>>
cliVars == <<cliPc, num_connections, batch_size, numFiles, fileIdx, curFile,
             batchNo, total_inserted, batchState, attempts, conns, nextConn,
             collected, pending, results, interruptedAt>>

VARIABLES
    \* ---- insert_batch: the ids synthesized for opn_std_scsbid_info --------
    idRecords,    \* records of the file: bidNtceNo and bidNtceOrd of each
    idBatchSize,  \* batch_size
    idI,          \* the loop variable i of range(0, len(records), batch_size)
    idIds,        \* data['id'] of the records prepared so far, in file order
    idPc,         \* "loop", "returned" or "raised"
    idBatches,    \* batches of insert_batch_parallel: (batch, batch_number, i)
    idParIds      \* per batch, data['id'] of its records once its worker ran


VARIABLES
    \* ---- DataProcessor.chunk_data ---------------------------------------
    cdData,       \* the data list handed to chunk_data
    cdSize,       \* self.chunk_size
    cdI,          \* the generator's loop variable i
    cdOut,        \* the chunks the running iteration has yielded
    cdPrev,       \* the chunks the iteration before it yielded
    cdRun,        \* which iteration over the same data is running
    cdPc          \* "iter", or "exhausted" once the generator has ended

VARIABLES
    \* ---- DataProcessor.process_single_cloud / DatabaseManager -----------
    dpData,        \* the data list of the performance test
    chunk_size,    \* DataProcessor.chunk_size
    mock_settings, \* DatabaseManager.mock_settings
    dpPc,          \* per cloud: position of its process_single_cloud task
    cloud_results, \* per cloud: the local list cloud_results
    chunk_id,      \* per cloud: the local counter chunk_id
    dpI,           \* per cloud: loop variable i of its chunk_data generator
    dpChunk,       \* per cloud: the chunk handed to batch_insert
    dpCalls,       \* per cloud: the db_manager calls made and what they returned
    dpInFlight,    \* per cloud: chunk ids of the batch_inserts not yet returned
    dpAllPc,       \* process_all_clouds: "idle", "gather" or "returned"
    dpClouds,      \* the list clouds of the invocation
    dpResults,     \* DataProcessor.results
    dpStats,       \* the ProcessingStats the invocation returned
    dpInvocations, \* number of process_all_clouds calls on this processor
    dpEarlier      \* len(self.results) as the invocation found it

idVars == <<idRecords, idBatchSize, idI, idIds, idPc, idBatches, idParIds>>
cdVars == <<cdData, cdSize, cdI, cdOut, cdPrev, cdRun, cdPc>>
dpVars == <<dpData, chunk_size, mock_settings, dpPc, cloud_results, chunk_id,
            dpI, dpChunk, dpCalls, dpInFlight, dpAllPc, dpClouds, dpResults,
            dpStats, dpInvocations, dpEarlier>>

VARIABLES
    \* ---- process_file: routing a file by its name -----------------------
    rtFilename,   \* file_path.name, a sequence of characters
    rtPc,         \* "call", "reading", "insert" or "returned"
    rtTable,      \* table_name
    rtResult,     \* the dictionary process_file returned
    rtOpened,     \* whether the file was opened
    rtDbCalls     \* number of statements sent to the database

rtVars == <<rtFilename, rtPc, rtTable, rtResult, rtOpened, rtDbCalls>>

VARIABLES
    \* ---- initialize_session_state ---------------------------------------
    session_state, \* st.session_state: the keys present and their values
    ssBefore,      \* st.session_state as the latest call found it
    ssCalls        \* number of initialize_session_state calls made

ssVars == <<session_state, ssBefore, ssCalls>>

VARIABLES
    \* ---- loading session files into the usage dashboard -----------------
    jlFiles,       \* the session files, each the sequence of its lines
    jlPath,        \* "none", or the load path taken: "project" / "upload"
    jlSessions     \* sessions: the list the analysis is run on

jlVars == <<jlFiles, jlPath, jlSessions>>

VARIABLES
    \* ---- comparing test runs --------------------------------------------
    pmRuns,        \* test_runs: the runs handed to the two functions
    pmDf,          \* the DataFrame calculate_performance_metrics returned
    pmAnalysis,    \* the dictionary analyze_performance_comparison returned
    pmCalled       \* which of the two functions have been called

pmVars == <<pmRuns, pmDf, pmAnalysis, pmCalled>>

\* the variables of the units checked on their own
unitVars == <<idVars, cdVars, dpVars, rtVars, ssVars, jlVars, pmVars>>
\* all variables but those of one unit
exceptId == <<trVars, swVars, cliVars, cdVars, dpVars, rtVars, ssVars, jlVars, pmVars>>
exceptCd == <<trVars, swVars, cliVars, idVars, dpVars, rtVars, ssVars, jlVars, pmVars>>
exceptDp == <<trVars, swVars, cliVars, idVars, cdVars, rtVars, ssVars, jlVars, pmVars>>
exceptRt == <<trVars, swVars, cliVars, idVars, cdVars, dpVars, ssVars, jlVars, pmVars>>
exceptSs == <<trVars, swVars, cliVars, idVars, cdVars, dpVars, rtVars, jlVars, pmVars>>

exceptJl == <<trVars, swVars, cliVars, idVars, cdVars, dpVars, rtVars, ssVars, pmVars>>

exceptPm == <<trVars, swVars, cliVars, idVars, cdVars, dpVars, rtVars, ssVars, jlVars>>

vars == <<trVars, swVars, cliVars, unitVars>>

\* ---- bounds -------------------------------------------------------------
NumThreads == 2
MaxCalls == 3
MaxClock == 1
MaxFiles == 2
MaxRecords == 3
MaxParFiles == 1

Threads == 1..NumThreads

NoneVal == "None"

\* dict.update(): keys of u override or extend d
DictUpdate(d, u) ==
    [k \in (DOMAIN d) \cup (DOMAIN u) |-> IF k \in DOMAIN u THEN u[k] ELSE d[k]]

\* dict.get(k, default)
DictGet(d, k, default) == IF k \in DOMAIN d THEN d[k] ELSE default

(***************************************************************************)
(* TestRunManager                                                          *)
(***************************************************************************)
\* Run configurations (provider, instance type, batch size, connections)
\* that callers pass; one tuple stands for one configuration.
Configs == {"gcp_b1000_c1", "aws_b1000_c2"}

\* generate_test_id: the timestamp has a resolution of one second, the rest
\* is the configuration.
generate_test_id(now, cfg) == <<now, cfg>>

\* The TestRun dataclass as create_test_run builds it. An Optional[int] is a
\* sequence of length 0 (None) or 1.
NewTestRun(test_id) ==
    [test_id |-> test_id, status |-> "running",
     total_records |-> <<>>, error_message |-> NoneVal]

\* The first index position whose test_id matches, 0 when there is none
\* (the for/break loop of update_test_run).
FirstMatch(runs, test_id) ==
    IF \E i \in 1..Len(runs) : runs[i].test_id = test_id
    THEN CHOOSE i \in 1..Len(runs) :
            /\ runs[i].test_id = test_id
            /\ \A j \in 1..(i - 1) : runs[j].test_id # test_id
    ELSE 0

\* update_test_run's loop body applied to the list read from the file
ApplyUpdates(runs, test_id, updates) ==
    LET i == FirstMatch(runs, test_id)
    IN IF i = 0 THEN runs
       ELSE [runs EXCEPT ![i] = DictUpdate(runs[i], updates)]

\* keyword arguments of complete_test_run / error_test_run
CompleteUpdates(total) == [status |-> "completed", total_records |-> <<total>>]
ErrorUpdates(msg) == [status |-> "error", error_message |-> msg]

\* keyword arguments callers pass to update_test_run directly
UpdateChoices ==
    {[status |-> s] : s \in {"running", "completed", "error"}}
        \cup {[error_message |-> "note"]}

\* test ids a caller can name: those generated so far and one unknown id
KnownIds == {generate_test_id(c, cfg) : c \in 0..clock, cfg \in Configs}

TRInit ==
    /\ clock = 0
    /\ indexFile = <<>>
    /\ trPc = [t \in Threads |-> "idle"]
    /\ trOp = [t \in Threads |-> [op |-> "none"]]
    /\ trLocal = [t \in Threads |-> <<>>]
    /\ trCalls = 0
    /\ trCreated = 0
    /\ trApplied = {}

Tick ==
    /\ clock < MaxClock
    /\ clock' = clock + 1
    /\ UNCHANGED <<indexFile, trPc, trOp, trLocal, trCalls, trCreated, trApplied>>
    /\ UNCHANGED <<swVars, cliVars, unitVars>>

\* create_test_run up to, not including, _read_index
CreateBegin(t) ==
    /\ trPc[t] = "idle"
    /\ trCalls < MaxCalls
    /\ \E cfg \in Configs :
          trOp' = [trOp EXCEPT ![t] =
                      [op |-> "create", test_id |-> generate_test_id(clock, cfg)]]
    /\ trPc' = [trPc EXCEPT ![t] = "read"]
    /\ trCalls' = trCalls + 1
    /\ UNCHANGED <<clock, indexFile, trLocal, trCreated, trApplied>>
    /\ UNCHANGED <<swVars, cliVars, unitVars>>

\* update_test_run / complete_test_run / error_test_run up to _read_index
UpdateBegin(t) ==
    /\ trPc[t] = "idle"
    /\ trCalls < MaxCalls
    /\ \E id \in KnownIds :
       \E u \in UpdateChoices \cup {CompleteUpdates(1), ErrorUpdates("boom")} :
          trOp' = [trOp EXCEPT ![t] = [op |-> "update", test_id |-> id, updates |-> u]]
    /\ trPc' = [trPc EXCEPT ![t] = "read"]
    /\ trCalls' = trCalls + 1
    /\ UNCHANGED <<clock, indexFile, trLocal, trCreated, trApplied>>
    /\ UNCHANGED <<swVars, cliVars, unitVars>>

\* _read_index (the lock is held for the whole read), then the in-memory
\* change of the list: append for create, merge for update
ReadIndex(t) ==
    /\ trPc[t] = "read"
    /\ trLocal' = [trLocal EXCEPT ![t] =
          IF trOp[t].op = "create"
          THEN Append(indexFile, NewTestRun(trOp[t].test_id))
          ELSE ApplyUpdates(indexFile, trOp[t].test_id, trOp[t].updates)]
    /\ trPc' = [trPc EXCEPT ![t] = "write"]
    /\ UNCHANGED <<clock, indexFile, trOp, trCalls, trCreated, trApplied>>
    /\ UNCHANGED <<swVars, cliVars, unitVars>>

\* _write_index (the lock is held for the whole write), then return
WriteIndex(t) ==
    /\ trPc[t] = "write"
    /\ indexFile' = trLocal[t]
    /\ trPc' = [trPc EXCEPT ![t] = "idle"]
    /\ trCreated' = IF trOp[t].op = "create" THEN trCreated + 1 ELSE trCreated
    /\ trApplied' =
          IF trOp[t].op = "update" /\ FirstMatch(trLocal[t], trOp[t].test_id) # 0
          THEN trApplied \cup {<<trOp[t].test_id, f>> : f \in DOMAIN trOp[t].updates}
          ELSE trApplied
    /\ UNCHANGED <<clock, trOp, trLocal, trCalls>>
    /\ UNCHANGED <<swVars, cliVars, unitVars>>

TRNext ==
    \/ Tick
    \/ \E t \in Threads : CreateBegin(t)
    \/ \E t \in Threads : UpdateBegin(t)
    \/ \E t \in Threads : ReadIndex(t)
    \/ \E t \in Threads : WriteIndex(t)

(***************************************************************************)
(* StatsWriter                                                             *)
(***************************************************************************)
\* datetime.now().isoformat(): a timestamp, as opposed to None
Now == "ts"

\* self.cloud_provider / self.instance_type of the writer (both set)
CloudProvider == "Unknown"
InstanceType == "Unknown"

EmptyDoc == <<>>

\* A file on disk: whole is FALSE between open(file, 'w'), which truncates
\* it, and the end of json.dump
WholeFile(doc) == [whole |-> TRUE, doc |-> doc]
TruncatedFile == [whole |-> FALSE, doc |-> EmptyDoc]

\* _init_files: the documents written for files that do not exist yet
InitProgress ==
    [status |-> "idle", current_file |-> "", current_batch |-> 0,
     files_completed |-> 0, total_files |-> 0, total_records_processed |-> 0,
     start_time |-> NoneVal, last_update |-> NoneVal]
InitStats == [batches |-> <<>>]
InitResults == EmptyDoc

\* update_progress: merge the keyword arguments, stamp last_update
UpdateProgressDoc(progress, kwargs) ==
    DictUpdate(DictUpdate(progress, kwargs), [last_update |-> Now])

\* _init_files: every file that does not exist gets its default document,
\* a file that exists is left as it is
init_files(fs) ==
    [f \in {"progress", "stats", "results"} |->
       IF f \in DOMAIN fs THEN fs[f]
       ELSE CASE f = "progress" -> WholeFile(InitProgress)
              [] f = "stats"    -> WholeFile(InitStats)
              [] OTHER          -> WholeFile(InitResults)]

\* the progress document of a start_migration that forgets total_files
StartProgressDocWithoutTotal(total_files) ==
    [status |-> "running", current_file |-> "", current_batch |-> 0,
     files_completed |-> 0, total_files |-> 0,
     total_records_processed |-> 0, start_time |-> Now, last_update |-> Now,
     cloud_provider |-> CloudProvider, instance_type |-> InstanceType]

\* start_migration: the progress document and the reset stats document
StartProgressDoc(total_files) ==
    [status |-> "running", current_file |-> "", current_batch |-> 0,
     files_completed |-> 0, total_files |-> total_files,
     total_records_processed |-> 0, start_time |-> Now, last_update |-> Now,
     cloud_provider |-> CloudProvider, instance_type |-> InstanceType]
StartStatsDoc ==
    [batches |-> <<>>, cloud_provider |-> CloudProvider, instance_type |-> InstanceType]

\* add_batch_stat: append to "batches", creating the list when it is missing
AddBatchStatDoc(stats, batch_stat) ==
    DictUpdate(stats, [batches |-> Append(DictGet(stats, "batches", <<>>), batch_stat)])

\* a complete_file that also starts the batch counter again
CompleteFileDocResettingBatch(progress) ==
    DictUpdate(progress,
        [files_completed |-> DictGet(progress, "files_completed", 0) + 1,
         current_file |-> "", current_batch |-> 0, last_update |-> Now])

\* complete_file
CompleteFileDoc(progress) ==
    DictUpdate(progress,
        [files_completed |-> DictGet(progress, "files_completed", 0) + 1,
         current_file |-> "", last_update |-> Now])

\* complete_migration: the progress part and the results part
CompleteProgressDoc(progress) ==
    DictUpdate(progress, [status |-> "completed", last_update |-> Now])
CompleteResultsDoc(final_results) ==
    DictUpdate(final_results, [completion_time |-> Now,
                         cloud_provider |-> CloudProvider,
                         instance_type |-> InstanceType])

\* error_migration
ErrorProgressDoc(progress, error_message) ==
    DictUpdate(progress, [status |-> "error", error_message |-> error_message,
                          last_update |-> Now])

\* The _read_json / _write_json calls a method makes, in order
Script(op) ==
    CASE op.name = "update_progress"    -> <<<<"R", "progress">>, <<"W", "progress">>>>
      [] op.name = "add_batch_stat"     -> <<<<"R", "stats">>, <<"W", "stats">>>>
      [] op.name = "complete_file"      -> <<<<"R", "progress">>, <<"W", "progress">>>>
      [] op.name = "complete_migration" ->
            <<<<"R", "progress">>, <<"W", "progress">>, <<"W", "results">>>>
      [] op.name = "error_migration"    -> <<<<"R", "progress">>, <<"W", "progress">>>>
      [] op.name = "start_migration"    -> <<<<"W", "progress">>, <<"W", "stats">>>>
      [] op.name = "read_progress"      -> <<<<"R", "progress">>>>
      [] op.name = "read_stats"         -> <<<<"R", "stats">>>>
      [] op.name = "read_results"       -> <<<<"R", "results">>>>
      [] OTHER                          -> <<>>

\* What a method computes from the document it has just read
AfterRead(op, doc) ==
    CASE op.name = "update_progress"    -> UpdateProgressDoc(doc, op.arg)
      [] op.name = "add_batch_stat"     -> AddBatchStatDoc(doc, op.arg)
      [] op.name = "complete_file"      -> CompleteFileDoc(doc)
      [] op.name = "complete_migration" -> CompleteProgressDoc(doc)
      [] op.name = "error_migration"    -> ErrorProgressDoc(doc, op.arg)
      [] OTHER                          -> doc

\* What a method hands to its k-th _read_json/_write_json call when that
\* call is a write
DataToWrite(op, k, local) ==
    CASE op.name = "start_migration" /\ k = 1    -> StartProgressDoc(op.arg)
      [] op.name = "start_migration" /\ k = 2    -> StartStatsDoc
      [] op.name = "complete_migration" /\ k = 3 -> CompleteResultsDoc(op.arg)
      [] OTHER                                   -> local

\* the lock taken without waiting for its holder
LockFreeIgnoringHolder(lock) == TRUE

\* "with self._lock": the lock can be taken
LockFree(lock) == lock = 0

\* The calls the threads make
SwCallChoices(t) ==
    {[name |-> "update_progress", arg |-> [current_file |-> "a.json"]],
     [name |-> "update_progress",
      arg |-> [current_batch |-> t, total_records_processed |-> t]],
     [name |-> "add_batch_stat", arg |-> [batch_number |-> t, records_count |-> 1,
                                          cumulative_records |-> t]],
     [name |-> "complete_file", arg |-> 0],
     [name |-> "complete_migration", arg |-> [status |-> "completed"]],
     [name |-> "error_migration", arg |-> "boom"],
     [name |-> "start_migration", arg |-> 2],
     [name |-> "read_progress", arg |-> 0],
     [name |-> "read_stats", arg |-> 0],
     [name |-> "read_results", arg |-> 0]}

NoRet == [kind |-> "none"]

SWInit ==
    /\ files = [f \in {"progress", "stats", "results"} |->
                  CASE f = "progress" -> WholeFile(InitProgress)
                    [] f = "stats"    -> WholeFile(InitStats)
                    [] OTHER          -> WholeFile(InitResults)]
    /\ swLock = 0
    /\ swPos = [t \in Threads |-> 0]
    /\ swPhase = [t \in Threads |-> "call"]
    /\ swOp = [t \in Threads |-> [name |-> "none", arg |-> 0]]
    /\ swLocal = [t \in Threads |-> EmptyDoc]
    /\ swRet = [t \in Threads |-> NoRet]
    /\ swCalls = 0
    /\ swAdds = 0
    /\ swFilesDone = 0
    /\ swBatchSet = FALSE
    /\ swReset = FALSE

\* The bookkeeping of a call that returns normally
SwReturned(t) ==
    /\ swAdds' = IF swOp[t].name = "add_batch_stat" THEN swAdds + 1 ELSE swAdds
    /\ swFilesDone' = IF swOp[t].name = "complete_file"
                      THEN swFilesDone + 1 ELSE swFilesDone
    /\ swBatchSet' = (swBatchSet \/ (/\ swOp[t].name = "update_progress"
                                     /\ "current_batch" \in DOMAIN swOp[t].arg))

\* A thread enters a StatsWriter method
SwBegin(t) ==
    /\ swPos[t] = 0
    /\ swCalls < MaxCalls
    /\ \E c \in SwCallChoices(t) :
          /\ swOp' = [swOp EXCEPT ![t] = c]
          /\ swReset' = (swReset \/ c.name = "start_migration")
    /\ swPos' = [swPos EXCEPT ![t] = 1]
    /\ swCalls' = swCalls + 1
    /\ swRet' = [swRet EXCEPT ![t] = NoRet]
    /\ UNCHANGED <<files, swLock, swPhase, swLocal, swAdds, swFilesDone, swBatchSet>>
    /\ UNCHANGED <<trVars, cliVars, unitVars>>

\* _read_json: lock, json.load, unlock. A truncated file raises
\* JSONDecodeError, which ends the calling method.
SwRead(t) ==
    /\ swPos[t] > 0
    /\ swPhase[t] = "call"
    /\ Script(swOp[t])[swPos[t]][1] = "R"
    /\ LockFree(swLock)
    /\ LET f == files[Script(swOp[t])[swPos[t]][2]]
           last == swPos[t] = Len(Script(swOp[t]))
       IN IF ~f.whole
          THEN /\ swRet' = [swRet EXCEPT ![t] = [kind |-> "JSONDecodeError"]]
               /\ swPos' = [swPos EXCEPT ![t] = 0]
               /\ UNCHANGED <<swLocal, swAdds, swFilesDone, swBatchSet>>
          ELSE /\ swLocal' = [swLocal EXCEPT ![t] = AfterRead(swOp[t], f.doc)]
               /\ swPos' = [swPos EXCEPT ![t] = IF last THEN 0 ELSE swPos[t] + 1]
               /\ swRet' = [swRet EXCEPT ![t] =
                              IF last THEN [kind |-> "doc", doc |-> f.doc] ELSE NoRet]
               /\ IF last THEN SwReturned(t) ELSE UNCHANGED <<swAdds, swFilesDone, swBatchSet>>
    /\ UNCHANGED <<files, swLock, swPhase, swOp, swCalls, swReset>>
    /\ UNCHANGED <<trVars, cliVars, unitVars>>

\* _write_json, first half: lock, open(file_path, 'w')
SwOpen(t) ==
    /\ swPos[t] > 0
    /\ swPhase[t] = "call"
    /\ Script(swOp[t])[swPos[t]][1] = "W"
    /\ LockFree(swLock)
    /\ swLock' = t
    /\ files' = [files EXCEPT ![Script(swOp[t])[swPos[t]][2]] = TruncatedFile]
    /\ swPhase' = [swPhase EXCEPT ![t] = "dump"]
    /\ UNCHANGED <<swPos, swOp, swLocal, swRet, swCalls, swAdds, swFilesDone,
                   swBatchSet, swReset>>
    /\ UNCHANGED <<trVars, cliVars, unitVars>>

\* _write_json, second half: json.dump, close, unlock
SwDump(t) ==
    /\ swPos[t] > 0
    /\ swPhase[t] = "dump"
    /\ LET last == swPos[t] = Len(Script(swOp[t]))
       IN /\ files' = [files EXCEPT ![Script(swOp[t])[swPos[t]][2]] =
                          WholeFile(DataToWrite(swOp[t], swPos[t], swLocal[t]))]
          /\ swPos' = [swPos EXCEPT ![t] = IF last THEN 0 ELSE swPos[t] + 1]
          /\ IF last THEN SwReturned(t) ELSE UNCHANGED <<swAdds, swFilesDone, swBatchSet>>
    /\ swLock' = 0
    /\ swPhase' = [swPhase EXCEPT ![t] = "call"]
    /\ UNCHANGED <<swOp, swLocal, swRet, swCalls, swReset>>
    /\ UNCHANGED <<trVars, cliVars, unitVars>>

\* The calls of a single caller: those above and a start_migration for one
\* file
SwSeqCallChoices ==
    SwCallChoices(1) \cup {[name |-> "start_migration", arg |-> 1]}

\* The single caller enters a StatsWriter method
SwSeqBegin ==
    /\ swPos[1] = 0
    /\ swCalls < MaxCalls
    /\ \E c \in SwSeqCallChoices :
          /\ swOp' = [swOp EXCEPT ![1] = c]
          /\ swReset' = (swReset \/ c.name = "start_migration")
    /\ swPos' = [swPos EXCEPT ![1] = 1]
    /\ swCalls' = swCalls + 1
    /\ swRet' = [swRet EXCEPT ![1] = NoRet]
    /\ UNCHANGED <<files, swLock, swPhase, swLocal, swAdds, swFilesDone, swBatchSet>>
    /\ UNCHANGED <<trVars, cliVars, unitVars>>

\* clear_all: _init_files finds the three files the constructor left
\* behind, so no _write_json call is made and the method returns
ClearAll(t) ==
    /\ swPos[t] = 0
    /\ swCalls < MaxCalls
    /\ swOp' = [swOp EXCEPT ![t] = [name |-> "clear_all", arg |-> 0]]
    /\ files' = init_files(files)
    /\ swCalls' = swCalls + 1
    /\ swRet' = [swRet EXCEPT ![t] = NoRet]
    /\ UNCHANGED <<swLock, swPos, swPhase, swLocal, swAdds, swFilesDone,
                   swBatchSet, swReset>>
    /\ UNCHANGED <<trVars, cliVars, unitVars>>

SWNext ==
    \/ \E t \in Threads : SwBegin(t)
    \/ \E t \in Threads : SwRead(t)
    \/ \E t \in Threads : SwOpen(t)
    \/ \E t \in Threads : SwDump(t)

(***************************************************************************)
(* CLIDataMigrator and main (migrate_cli.py)                               *)
(* The stats writer is called from the main thread only (the workers of   *)
(* the parallel path return their result to the as_completed loop), so    *)
(* each StatsWriter call of the migrator is one step on the files.        *)
(* CLIDataMigrator.__init__ (line 47) hands batch_size and                 *)
(* num_connections to StatsWriter, whose constructor in stats_writer.py    *)
(* accepts neither; the model starts from a migrator holding a            *)
(* StatsWriter(output_dir, cloud_provider, instance_type), the state the   *)
(* methods below are written for.                                          *)
(***************************************************************************)
\* --connections values: 1 is the sequential path, 2 the smallest pool
ConnectionChoices == {1, 2}
\* --batch-size values, scaled down to the sizes of the modelled files
BatchSizes == {1, 2}

\* What a data file can hold: a name with no known prefix, text that is not
\* JSON, JSON that is not a list, a list of records for a known table
FileKinds == {"unknown", "unreadable", "notlist", "table"}

NoFile == [idx |-> 0, kind |-> "none", n |-> 0, cols |-> TRUE]

\* file_path.name of the file at position i
FileName(i) == ToString(i)

\* range(0, len(records), batch_size): the number of batches
NumBatches(n, bs) == (n + bs - 1) \div bs

\* len(records[i:i + batch_size]) for batch number b (i = (b-1) * batch_size)
BatchLen(n, bs, b) == IF n - (b - 1) * bs < bs THEN n - (b - 1) * bs ELSE bs

Batches == 1..Len(batchState)
Running == {b \in Batches : batchState[b] = "running"}
Finished(b) == batchState[b] \in {"ok", "failed", "raised"}

\* the batch_stat dictionary (timings left out)
BatchStat(b, count, cumulative) ==
    [batch_number |-> b, records_count |-> count, cumulative_records |-> cumulative]

\* add_batch_stat followed by update_progress, as both insert paths call them
RecordBatch(fs, b, count, cumulative) ==
    [fs EXCEPT
       !["stats"] = WholeFile(AddBatchStatDoc(fs["stats"].doc,
                                              BatchStat(b, count, cumulative))),
       !["progress"] = WholeFile(UpdateProgressDoc(fs["progress"].doc,
                          [current_batch |-> b,
                           total_records_processed |-> cumulative]))]

\* the result dictionaries of process_file
SkippedResult(i) ==
    [filename |-> FileName(i), status |-> "skipped", reason |-> "unknown file pattern"]
ErrorResult(i, reason) ==
    [filename |-> FileName(i), status |-> "error", reason |-> reason]
SuccessResult(i, processed, inserted) ==
    [filename |-> FileName(i), status |-> "success",
     records_processed |-> processed, records_inserted |-> inserted]

RECURSIVE SumInserted(_)
SumInserted(rs) ==
    IF rs = <<>> THEN 0
    ELSE (IF Head(rs).status = "success" THEN Head(rs).records_inserted ELSE 0)
            + SumInserted(Tail(rs))

CountStatus(rs, st) == Cardinality({i \in 1..Len(rs) : rs[i].status = st})

\* final_results taking every file without a success result for failed
FinalResultsSkippedAsFailed(rs) ==
    [status |-> IF CountStatus(rs, "success") = Len(rs)
                THEN "completed" ELSE "completed_with_errors",
     total_files |-> Len(rs),
     successful |-> CountStatus(rs, "success"),
     failed |-> Len(rs) - CountStatus(rs, "success"),
     total_records |-> SumInserted(rs)]

\* final_results of main
FinalResults(rs) ==
    [status |-> IF CountStatus(rs, "error") = 0
                THEN "completed" ELSE "completed_with_errors",
     total_files |-> Len(rs),
     successful |-> CountStatus(rs, "success"),
     failed |-> CountStatus(rs, "error"),
     total_records |-> SumInserted(rs)]

\* ThreadPoolExecutor(max_workers=num_connections) starting every queued
\* job at once
PoolHasIdleWorkerUnbounded == TRUE

\* ThreadPoolExecutor(max_workers=num_connections): a queued job starts
\* when fewer than max_workers jobs run
PoolHasIdleWorker == Cardinality(Running) < num_connections

CLIInit ==
    /\ cliPc = "args"
    /\ num_connections = 1
    /\ batch_size = 1
    /\ numFiles = 0
    /\ fileIdx = 0
    /\ curFile = NoFile
    /\ batchNo = 0
    /\ total_inserted = 0
    /\ batchState = <<>>
    /\ attempts = <<>>
    /\ conns = <<>>
    /\ nextConn = 0
    /\ collected = {}
    /\ pending = "none"
    /\ results = <<>>
    /\ interruptedAt = 0

\* main: parse the arguments (--connections among the given choices) and
\* build the migrator
ParseArgs(connections) ==
    /\ cliPc = "args"
    /\ num_connections' \in connections
    /\ batch_size' \in BatchSizes
    /\ cliPc' = "start"
    /\ UNCHANGED <<numFiles, fileIdx, curFile, batchNo, total_inserted, batchState,
                   attempts, conns, nextConn, collected, pending, results,
                   interruptedAt>>
    /\ UNCHANGED <<trVars, swVars, unitVars>>

\* the for statement of migrate_all_files moving on after file i
NextFile ==
    IF fileIdx < numFiles
    THEN /\ fileIdx' = fileIdx + 1
         /\ cliPc' = "file"
    ELSE /\ fileIdx' = fileIdx
         /\ cliPc' = "summary"

\* migrate_all_files up to the file loop; FileNotFoundError goes to main's
\* except clause, which records it and re-raises
MigrateStart(maxFiles) ==
    /\ cliPc = "start"
    /\ \E exists \in BOOLEAN : \E n \in 0..maxFiles :
          IF ~exists
          THEN /\ n = 0
               /\ files' = [files EXCEPT !["progress"] =
                     WholeFile(ErrorProgressDoc(files["progress"].doc,
                                                "Data directory data not found"))]
               /\ cliPc' = "raised"
               /\ UNCHANGED <<numFiles, fileIdx>>
          ELSE IF n = 0
          THEN /\ cliPc' = "summary"
               /\ UNCHANGED <<files, numFiles, fileIdx>>
          ELSE /\ files' = [files EXCEPT
                               !["progress"] = WholeFile(StartProgressDoc(n)),
                               !["stats"] = WholeFile(StartStatsDoc)]
               /\ numFiles' = n
               /\ fileIdx' = 1
               /\ cliPc' = "file"
    /\ UNCHANGED <<num_connections, batch_size, curFile, batchNo, total_inserted,
                   batchState, attempts, conns, nextConn, collected, pending,
                   results, interruptedAt>>
    /\ UNCHANGED <<swLock, swPos, swPhase, swOp, swLocal, swRet, swCalls, swAdds,
                   swFilesDone, swBatchSet, swReset>>
    /\ UNCHANGED <<trVars, unitVars>>

\* process_file up to the call of insert_batch
ProcessFile ==
    /\ cliPc = "file"
    /\ \E kind \in FileKinds : \E n \in 0..MaxRecords : \E cols \in BOOLEAN :
          /\ kind # "table" => (n = 0 /\ cols)
          /\ IF kind = "unknown"
             THEN /\ results' = Append(results, SkippedResult(fileIdx))
                  /\ NextFile
                  /\ UNCHANGED <<files, curFile, batchState, attempts>>
             ELSE /\ files' = [files EXCEPT !["progress"] =
                        WholeFile(UpdateProgressDoc(files["progress"].doc,
                                     [current_file |-> FileName(fileIdx)]))]
                  /\ IF kind = "table"
                     THEN /\ curFile' = [idx |-> fileIdx, kind |-> kind, n |-> n,
                                         cols |-> cols]
                          /\ batchState' = <<>>
                          /\ attempts' = <<>>
                          /\ cliPc' = "insert"
                          /\ UNCHANGED <<results, fileIdx>>
                     ELSE /\ results' = Append(results,
                                ErrorResult(fileIdx,
                                   IF kind = "notlist" THEN "invalid data format"
                                   ELSE "JSONDecodeError"))
                          /\ NextFile
                          /\ UNCHANGED <<curFile, batchState, attempts>>
    /\ UNCHANGED <<num_connections, batch_size, numFiles, batchNo, total_inserted,
                   conns, nextConn, collected, pending, interruptedAt>>
    /\ UNCHANGED <<swLock, swPos, swPhase, swOp, swLocal, swRet, swCalls, swAdds,
                   swFilesDone, swBatchSet, swReset>>
    /\ UNCHANGED <<trVars, unitVars>>

\* insert_batch up to the choice of the path: nothing to insert, no columns
\* found, the parallel path or the sequential loop
InsertBatch ==
    /\ cliPc = "insert"
    /\ total_inserted' = 0
    /\ conns' = <<>>
    /\ collected' = {}
    /\ IF curFile.n = 0 \/ ~curFile.cols
       THEN /\ cliPc' = "file_done"
            /\ batchState' = <<>>
            /\ attempts' = <<>>
            /\ batchNo' = 0
       ELSE /\ batchState' = [b \in 1..NumBatches(curFile.n, batch_size) |-> "new"]
            /\ attempts' = [b \in 1..NumBatches(curFile.n, batch_size) |-> 0]
            /\ batchNo' = 1
            /\ cliPc' = IF num_connections > 1 THEN "submit" ELSE "seq_batch"
    /\ UNCHANGED <<num_connections, batch_size, numFiles, fileIdx, curFile, nextConn,
                   pending, results, interruptedAt>>
    /\ UNCHANGED <<trVars, swVars, unitVars>>

\* One iteration of the sequential loop whose executemany and commit succeed
SeqBatchOk ==
    /\ cliPc = "seq_batch"
    /\ LET count == BatchLen(curFile.n, batch_size, batchNo)
       IN /\ total_inserted' = total_inserted + count
          /\ files' = RecordBatch(files, batchNo, count, total_inserted + count)
    /\ batchState' = [batchState EXCEPT ![batchNo] = "ok"]
    /\ attempts' = [attempts EXCEPT ![batchNo] = @ + 1]
    /\ batchNo' = batchNo + 1
    /\ cliPc' = IF batchNo = Len(batchState) THEN "file_done" ELSE "seq_batch"
    /\ UNCHANGED <<num_connections, batch_size, numFiles, fileIdx, curFile, conns,
                   nextConn, collected, pending, results, interruptedAt>>
    /\ UNCHANGED <<swLock, swPos, swPhase, swOp, swLocal, swRet, swCalls, swAdds,
                   swFilesDone, swBatchSet, swReset>>
    /\ UNCHANGED <<trVars, unitVars>>

\* The sequential loop going on with the next batch after a failed one
SeqBatchFailContinue ==
    /\ cliPc = "seq_batch"
    /\ batchState' = [batchState EXCEPT ![batchNo] = "failed"]
    /\ attempts' = [attempts EXCEPT ![batchNo] = @ + 1]
    /\ batchNo' = batchNo + 1
    /\ cliPc' = IF batchNo = Len(batchState) THEN "file_done" ELSE "seq_batch"
    /\ UNCHANGED <<num_connections, batch_size, numFiles, fileIdx, curFile, conns,
                   nextConn, collected, pending, results, interruptedAt,
                   total_inserted>>
    /\ UNCHANGED <<trVars, swVars, unitVars>>

\* One iteration of the sequential loop whose executemany or commit raises:
\* rollback, re-raise, and process_file's except clause returns an error
\* result, which migrate_all_files appends
SeqBatchFail ==
    /\ cliPc = "seq_batch"
    /\ batchState' = [batchState EXCEPT ![batchNo] = "failed"]
    /\ attempts' = [attempts EXCEPT ![batchNo] = @ + 1]
    /\ results' = Append(results, ErrorResult(fileIdx, "batch failed"))
    /\ NextFile
    /\ UNCHANGED <<num_connections, batch_size, numFiles, curFile, batchNo,
                   total_inserted, conns, nextConn, collected, pending,
                   interruptedAt>>
    /\ UNCHANGED <<trVars, swVars, unitVars>>

\* process_file after insert_batch returned: the success result and
\* complete_file; migrate_all_files appends the result
FileDone ==
    /\ cliPc = "file_done"
    /\ results' = Append(results, SuccessResult(fileIdx, curFile.n, total_inserted))
    /\ files' = [files EXCEPT !["progress"] =
                    WholeFile(CompleteFileDoc(files["progress"].doc))]
    /\ NextFile
    /\ UNCHANGED <<num_connections, batch_size, numFiles, curFile, batchNo,
                   total_inserted, batchState, attempts, conns, nextConn, collected,
                   pending, interruptedAt>>
    /\ UNCHANGED <<swLock, swPos, swPhase, swOp, swLocal, swRet, swCalls, swAdds,
                   swFilesDone, swBatchSet, swReset>>
    /\ UNCHANGED <<trVars, unitVars>>

\* One iteration of the submit loop: create_connection, executor.submit.
\* create_connection raising leaves the with block: the executor waits for
\* the jobs already submitted
Submit ==
    /\ cliPc = "submit"
    /\ \E opened \in BOOLEAN :
          IF opened
          THEN /\ conns' = Append(conns, [id |-> nextConn + 1, state |-> "open"])
               /\ nextConn' = nextConn + 1
               /\ batchState' = [batchState EXCEPT ![batchNo] = "queued"]
               /\ batchNo' = batchNo + 1
               /\ cliPc' = IF batchNo = Len(batchState) THEN "collect" ELSE "submit"
               /\ UNCHANGED pending
          ELSE /\ pending' = "error"
               /\ cliPc' = "unwind"
               /\ UNCHANGED <<conns, nextConn, batchState, batchNo>>
    /\ UNCHANGED <<num_connections, batch_size, numFiles, fileIdx, curFile,
                   total_inserted, attempts, collected, results, interruptedAt>>
    /\ UNCHANGED <<trVars, swVars, unitVars>>

\* A pool thread takes a queued job and enters _insert_batch_worker
WorkerStart(b) ==
    /\ batchState[b] = "queued"
    /\ PoolHasIdleWorker
    /\ batchState' = [batchState EXCEPT ![b] = "running"]
    /\ attempts' = [attempts EXCEPT ![b] = @ + 1]
    /\ UNCHANGED <<cliPc, num_connections, batch_size, numFiles, fileIdx, curFile,
                   batchNo, total_inserted, conns, nextConn, collected, pending,
                   results, interruptedAt>>
    /\ UNCHANGED <<trVars, swVars, unitVars>>

\* _insert_batch_worker returns: success after commit, a failure result
\* after rollback, or the exception of a rollback that failed too
WorkerFinish(b) ==
    /\ batchState[b] = "running"
    /\ \E outcome \in {"ok", "failed", "raised"} :
          batchState' = [batchState EXCEPT ![b] = outcome]
    /\ UNCHANGED <<cliPc, num_connections, batch_size, numFiles, fileIdx, curFile,
                   batchNo, total_inserted, attempts, conns, nextConn, collected,
                   pending, results, interruptedAt>>
    /\ UNCHANGED <<trVars, swVars, unitVars>>

\* One iteration of the as_completed loop counting every finished batch
CollectCountingAll(b) ==
    /\ cliPc = "collect"
    /\ b \notin collected
    /\ Finished(b)
    /\ LET count == BatchLen(curFile.n, batch_size, b)
       IN /\ total_inserted' = total_inserted + count
          /\ files' = RecordBatch(files, b, count, total_inserted + count)
    /\ conns' = [conns EXCEPT ![b].state = "closed"]
    /\ collected' = collected \cup {b}
    /\ cliPc' = IF collected' = Batches THEN "file_done" ELSE "collect"
    /\ UNCHANGED <<num_connections, batch_size, numFiles, fileIdx, curFile, batchNo,
                   batchState, attempts, nextConn, pending, results, interruptedAt>>
    /\ UNCHANGED <<swLock, swPos, swPhase, swOp, swLocal, swRet, swCalls, swAdds,
                   swFilesDone, swBatchSet, swReset>>
    /\ UNCHANGED <<trVars, unitVars>>

\* One iteration of the as_completed loop: a successful batch is counted and
\* recorded, any other is logged; the connection is closed either way.
\* After the last one _insert_batch_parallel returns total_inserted.
Collect(b) ==
    /\ cliPc = "collect"
    /\ b \notin collected
    /\ Finished(b)
    /\ IF batchState[b] = "ok"
       THEN LET count == BatchLen(curFile.n, batch_size, b)
            IN /\ total_inserted' = total_inserted + count
               /\ files' = RecordBatch(files, b, count, total_inserted + count)
       ELSE UNCHANGED <<total_inserted, files>>
    /\ conns' = [conns EXCEPT ![b].state = "closed"]
    /\ collected' = collected \cup {b}
    /\ cliPc' = IF collected' = Batches THEN "file_done" ELSE "collect"
    /\ UNCHANGED <<num_connections, batch_size, numFiles, fileIdx, curFile, batchNo,
                   batchState, attempts, nextConn, pending, results, interruptedAt>>
    /\ UNCHANGED <<swLock, swPos, swPhase, swOp, swLocal, swRet, swCalls, swAdds,
                   swFilesDone, swBatchSet, swReset>>
    /\ UNCHANGED <<trVars, unitVars>>

\* The executor's with block left by an exception: shutdown(wait=True) lets
\* every submitted job finish, then the exception reaches process_file (an
\* Exception) or migrate_all_files (KeyboardInterrupt)
Unwind ==
    /\ cliPc = "unwind"
    /\ \A b \in Batches : batchState[b] \notin {"queued", "running"}
    /\ IF pending = "interrupt"
       THEN /\ files' = [files EXCEPT !["progress"] =
                  WholeFile(ErrorProgressDoc(files["progress"].doc,
                                             "Interrupted by user"))]
            /\ cliPc' = "summary"
            /\ UNCHANGED <<results, fileIdx>>
       ELSE /\ results' = Append(results, ErrorResult(fileIdx, "connection failed"))
            /\ NextFile
            /\ UNCHANGED files
    /\ pending' = "none"
    /\ UNCHANGED <<num_connections, batch_size, numFiles, curFile, batchNo,
                   total_inserted, batchState, attempts, conns, nextConn, collected,
                   interruptedAt>>
    /\ UNCHANGED <<swLock, swPos, swPhase, swOp, swLocal, swRet, swCalls, swAdds,
                   swFilesDone, swBatchSet, swReset>>
    /\ UNCHANGED <<trVars, unitVars>>

\* KeyboardInterrupt in the main thread while process_file runs. No
\* "except Exception" clause catches it; on the sequential path it reaches
\* migrate_all_files at once (error_migration, break), on the parallel path
\* it first leaves the executor's with block.
Interrupt ==
    /\ cliPc \in {"insert", "seq_batch", "file_done", "submit", "collect"}
    /\ interruptedAt' = fileIdx
    /\ IF cliPc \in {"submit", "collect"}
       THEN /\ pending' = "interrupt"
            /\ cliPc' = "unwind"
            /\ UNCHANGED files
       ELSE /\ files' = [files EXCEPT !["progress"] =
                  WholeFile(ErrorProgressDoc(files["progress"].doc,
                                             "Interrupted by user"))]
            /\ cliPc' = "summary"
            /\ UNCHANGED pending
    /\ UNCHANGED <<num_connections, batch_size, numFiles, fileIdx, curFile, batchNo,
                   total_inserted, batchState, attempts, conns, nextConn, collected,
                   results>>
    /\ UNCHANGED <<swLock, swPos, swPhase, swOp, swLocal, swRet, swCalls, swAdds,
                   swFilesDone, swBatchSet, swReset>>
    /\ UNCHANGED <<trVars, unitVars>>

\* main after migrate_all_files returned: the summary, final_results and
\* complete_migration
Summary ==
    /\ cliPc = "summary"
    /\ files' = [files EXCEPT
                   !["progress"] = WholeFile(CompleteProgressDoc(files["progress"].doc)),
                   !["results"] = WholeFile(CompleteResultsDoc(FinalResults(results)))]
    /\ cliPc' = "done"
    /\ UNCHANGED <<num_connections, batch_size, numFiles, fileIdx, curFile, batchNo,
                   total_inserted, batchState, attempts, conns, nextConn, collected,
                   pending, results, interruptedAt>>
    /\ UNCHANGED <<swLock, swPos, swPhase, swOp, swLocal, swRet, swCalls, swAdds,
                   swFilesDone, swBatchSet, swReset>>
    /\ UNCHANGED <<trVars, unitVars>>

\* One run of main, sequential or parallel
CLINext ==
    \/ ParseArgs(ConnectionChoices)
    \/ MigrateStart(MaxFiles)
    \/ ProcessFile
    \/ InsertBatch
    \/ SeqBatchOk
    \/ SeqBatchFail
    \/ FileDone
    \/ Submit
    \/ \E b \in Batches : WorkerStart(b)
    \/ \E b \in Batches : WorkerFinish(b)
    \/ \E b \in Batches : Collect(b)
    \/ Unwind
    \/ Interrupt
    \/ Summary

\* One run of main with --connections 1
CLISeqNext ==
    \/ ParseArgs({1})
    \/ MigrateStart(MaxFiles)
    \/ ProcessFile
    \/ InsertBatch
    \/ SeqBatchOk
    \/ SeqBatchFail
    \/ FileDone
    \/ Interrupt
    \/ Summary

\* One run of main with --connections > 1 over at most MaxParFiles files
CLIParNext ==
    \/ ParseArgs(ConnectionChoices \ {1})
    \/ MigrateStart(MaxParFiles)
    \/ ProcessFile
    \/ InsertBatch
    \/ FileDone
    \/ Submit
    \/ \E b \in Batches : WorkerStart(b)
    \/ \E b \in Batches : WorkerFinish(b)
    \/ \E b \in Batches : Collect(b)
    \/ Unwind
    \/ Interrupt
    \/ Summary

\* One caller making its StatsWriter calls one after the other
SWSeqNext ==
    \/ SwSeqBegin
    \/ SwRead(1)
    \/ SwOpen(1)
    \/ SwDump(1)
    \/ ClearAll(1)

\* One caller making its TestRunManager calls one after the other
TRSeqNext ==
    \/ Tick
    \/ CreateBegin(1)
    \/ UpdateBegin(1)
    \/ ReadIndex(1)
    \/ WriteIndex(1)

(***************************************************************************)
(* insert_batch: the id column of opn_std_scsbid_info                      *)
(* (migrate_cli.py and data_migration.py hold the same loop).  Strings are *)
(* sequences of characters, so that the f-string is a concatenation.       *)
(***************************************************************************)
\* values of bidNtceNo and of bidNtceOrd in the records of a file; both
\* may hold the separator of the id
BidNtceNos == {<<"A">>, <<"A", "_", "1">>}
BidNtceOrds == {<<"1">>, <<"1", "_", "1">>}
IdRecord == [bidNtceNo : BidNtceNos, bidNtceOrd : BidNtceOrds]

\* sequences over S of length 0..n
SeqsUpTo(S, n) == UNION {[1..k -> S] : k \in 0..n}

DigitChars == <<"0", "1", "2", "3", "4", "5", "6", "7", "8", "9">>

\* str(n) of a non-negative integer
RECURSIVE Digits(_)
Digits(n) ==
    IF n < 10 THEN <<DigitChars[n + 1]>>
    ELSE Digits(n \div 10) \o <<DigitChars[(n % 10) + 1]>>

\* f"{data.get('bidNtceNo', '')}_{data.get('bidNtceOrd', '')}_{n}"
FormatId(no, ord, n) == no \o <<"_">> \o ord \o <<"_">> \o Digits(n)

\* the running index numbered within each batch
RecordNumberInBatch(i, j) == j + 1

\* i+j+1: i the offset of the batch in the file, j the enumerate index
RecordNumber(i, j) == i + j + 1

\* s[i:i + size + 1]: a slice one element too long
SliceOverlapping(s, i, size) ==
    SubSeq(s, i + 1, IF i + size + 1 < Len(s) THEN i + size + 1 ELSE Len(s))

\* s[i:i + size], as in records[i:i + batch_size]
Slice(s, i, size) ==
    SubSeq(s, i + 1, IF i + size < Len(s) THEN i + size ELSE Len(s))

\* insert_batch is called with the records of one file
IDInit ==
    /\ idRecords \in SeqsUpTo(IdRecord, MaxRecords)
    /\ idBatchSize \in BatchSizes
    /\ idI = 0
    /\ idIds = <<>>
    /\ idPc = "call"
    /\ idBatches = <<>>
    /\ idParIds = <<>>

\* no insert_batch call is looked at
IdIdle ==
    /\ idRecords = <<>>
    /\ idBatchSize = 1
    /\ idI = 0
    /\ idIds = <<>>
    /\ idPc = "returned"
    /\ idBatches = <<>>
    /\ idParIds = <<>>

\* insert_batch up to its loop: no records, or no columns found, returns 0
IdInsertBatch ==
    /\ idPc = "call"
    /\ \E columns \in BOOLEAN :
          idPc' = IF idRecords = <<>> \/ ~columns THEN "returned" ELSE "loop"
    /\ UNCHANGED <<idRecords, idBatchSize, idI, idIds, idBatches, idParIds>>
    /\ UNCHANGED exceptId

\* One iteration of the batch loop: prepare the batch, set data['id'] of
\* each of its records, then executemany and commit, which may raise
IdBatch ==
    /\ idPc = "loop"
    /\ LET batch == Slice(idRecords, idI, idBatchSize)
       IN idIds' = idIds \o [j1 \in 1..Len(batch) |->
                       FormatId(batch[j1].bidNtceNo, batch[j1].bidNtceOrd,
                                RecordNumber(idI, j1 - 1))]
    /\ \E ok \in BOOLEAN :
          IF ok
          THEN /\ idI' = idI + idBatchSize
               /\ idPc' = IF idI + idBatchSize < Len(idRecords)
                          THEN "loop" ELSE "returned"
          ELSE /\ idI' = idI
               /\ idPc' = "raised"
    /\ UNCHANGED <<idRecords, idBatchSize, idBatches, idParIds>>
    /\ UNCHANGED exceptId

\* the number a worker would give the j-th record (from 0) of its batch if
\* it counted within the batch
WorkerNumberInBatch(start_offset, j) == j + 1

\* start_offset+j+1: the number a worker gives the j-th record (from 0) of
\* its batch
WorkerRecordNumber(start_offset, j) == start_offset + j + 1

\* insert_batch_parallel on the same records and batch size, up to the
\* executor: the records are split and each batch is given its offset
IdSplit ==
    /\ idBatches = <<>>
    /\ idRecords # <<>>
    /\ idBatches' =
          [b \in 1..((Len(idRecords) + idBatchSize - 1) \div idBatchSize) |->
             LET i == (b - 1) * idBatchSize
             IN [batch |-> Slice(idRecords, i, idBatchSize),
                 batch_number |-> i \div idBatchSize + 1,
                 start_offset |-> i]]
    /\ idParIds' =
          [b \in 1..((Len(idRecords) + idBatchSize - 1) \div idBatchSize) |-> <<>>]
    /\ UNCHANGED <<idRecords, idBatchSize, idI, idIds, idPc>>
    /\ UNCHANGED exceptId

\* _insert_batch_worker of one batch, in whatever order the pool runs the
\* workers: data['id'] of each record is set from the batch's start_offset
\* before the INSERT is tried
IdWorker(b) ==
    /\ b \in DOMAIN idBatches
    /\ idParIds[b] = <<>>
    /\ idParIds' = [idParIds EXCEPT ![b] =
          [j1 \in 1..Len(idBatches[b].batch) |->
             FormatId(idBatches[b].batch[j1].bidNtceNo,
                      idBatches[b].batch[j1].bidNtceOrd,
                      WorkerRecordNumber(idBatches[b].start_offset, j1 - 1))]]
    /\ UNCHANGED <<idRecords, idBatchSize, idI, idIds, idPc, idBatches>>
    /\ UNCHANGED exceptId

IDNext ==
    \/ IdInsertBatch
    \/ IdBatch
    \/ IdSplit
    \/ \E b \in 1..MaxRecords : IdWorker(b)

(***************************************************************************)
(* DataProcessor.chunk_data (data_processor.py): a generator over the      *)
(* slices of the data list; every call starts a new generator.             *)
(***************************************************************************)
MaxData == 4
MaxChunk == 3
MaxIterations == 2

\* the records of an uploaded JSON file, told apart by their content
DataRecords == {"r1", "r2"}

\* chunk_data is called on a data list; chunk_size is positive (the sidebar
\* slider starts at 5, the constructor's default is 10)
CDInit ==
    /\ cdData \in SeqsUpTo(DataRecords, MaxData)
    /\ cdSize \in 1..MaxChunk
    /\ cdI = 0
    /\ cdOut = <<>>
    /\ cdPrev = <<>>
    /\ cdRun = 1
    /\ cdPc = "iter"

\* no chunk_data call is looked at
CdIdle ==
    /\ cdData = <<>>
    /\ cdSize = 1
    /\ cdI = 0
    /\ cdOut = <<>>
    /\ cdPrev = <<>>
    /\ cdRun = 1
    /\ cdPc = "exhausted"

\* next() on the generator while range(0, len(data), chunk_size) has a
\* value left: yield data[i:i + chunk_size]
CdYield ==
    /\ cdPc = "iter"
    /\ cdI < Len(cdData)
    /\ cdOut' = Append(cdOut, Slice(cdData, cdI, cdSize))
    /\ cdI' = cdI + cdSize
    /\ UNCHANGED <<cdData, cdSize, cdPrev, cdRun, cdPc>>
    /\ UNCHANGED exceptCd

\* next() on the generator once the range is used up: StopIteration
CdStop ==
    /\ cdPc = "iter"
    /\ cdI >= Len(cdData)
    /\ cdPc' = "exhausted"
    /\ UNCHANGED <<cdData, cdSize, cdI, cdOut, cdPrev, cdRun>>
    /\ UNCHANGED exceptCd

\* chunk_data is called again on the same data
CdAgain ==
    /\ cdPc = "exhausted"
    /\ cdRun < MaxIterations
    /\ cdPrev' = cdOut
    /\ cdOut' = <<>>
    /\ cdI' = 0
    /\ cdRun' = cdRun + 1
    /\ cdPc' = "iter"
    /\ UNCHANGED <<cdData, cdSize>>
    /\ UNCHANGED exceptCd

CDNext == CdYield \/ CdStop \/ CdAgain

(***************************************************************************)
(* DataProcessor.process_single_cloud (data_processor.py) over the         *)
(* DatabaseManager (db_manager.py).  Each cloud's task runs on its own and *)
(* gives up control at every await.                                        *)
(***************************************************************************)
MaxCloudData == 3
MaxInvocations == 2

\* the clouds selected for the test
Clouds == {"aws", "gcp"}

\* mock_mode of database.yaml: enabled or not, with or without the
\* latency_ranges key
MockSettings == [enabled : BOOLEAN, latency_ranges : BOOLEAN]

InsertResult(cloud, id, records_count, success, error_message) ==
    [cloud |-> cloud, chunk_id |-> id, records_count |-> records_count,
     success |-> success, error_message |-> error_message]

\* DatabaseManager.test_connection; r is random.random() < 0.95
test_connection(settings, r) == IF settings.enabled THEN r ELSE TRUE

\* DatabaseManager.create_table: True in mock mode and outside it
create_table(settings) == IF settings.enabled THEN TRUE ELSE TRUE

\* batch_insert letting the error of its try block reach the caller
batch_insert_reraising(settings, cloud, id, records, r) ==
    IF settings.enabled
    THEN IF ~settings.latency_ranges
         THEN [raised |-> TRUE]
         ELSE [raised |-> FALSE,
               result |-> InsertResult(cloud, id, Len(records), r,
                                       IF r THEN NoneVal ELSE "Mock error")]
    ELSE [raised |-> FALSE,
          result |-> InsertResult(cloud, id, Len(records), TRUE, NoneVal)]

\* DatabaseManager.batch_insert; r is random.random() < 0.98.  A missing
\* latency_ranges key raises KeyError inside the try block, which the
\* except clause turns into a failed result carrying str(e)
batch_insert(settings, cloud, id, records, r) ==
    IF settings.enabled
    THEN IF ~settings.latency_ranges
         THEN [raised |-> FALSE,
               result |-> InsertResult(cloud, id, Len(records), FALSE,
                                       "'latency_ranges'")]
         ELSE [raised |-> FALSE,
               result |-> InsertResult(cloud, id, Len(records), r,
                                       IF r THEN NoneVal ELSE "Mock error")]
    ELSE [raised |-> FALSE,
          result |-> InsertResult(cloud, id, Len(records), TRUE, NoneVal)]

\* the failure result of process_single_cloud
FailureResult(cloud, error_message) ==
    InsertResult(cloud, 0, 0, FALSE, error_message)

\* a call made to the db_manager and, for the two checks, its answer
DbCall(name, ret) ==
    [call |-> name, ret |-> IF ret THEN "True" ELSE "False"]

\* the lists a caller passes as clouds: a selection of the configured
\* clouds in some order; None stands for all of them
CloudLists == {<<>>, <<"aws">>, <<"gcp">>, <<"aws", "gcp">>, <<"gcp", "aws">>}

\* len(list(self.chunk_data(data)))
NumChunks(data, size) == (Len(data) + size - 1) \div size

\* the results of the tasks, one list after the other in the order of clouds
RECURSIVE Flatten(_, _)
Flatten(clouds, lists) ==
    IF clouds = <<>> THEN <<>>
    ELSE lists[Head(clouds)] \o Flatten(Tail(clouds), lists)

\* sum(1 for r in self.results if r.success)
SuccessCount(rs) == Cardinality({k \in 1..Len(rs) : rs[k].success})

ProcessingStats(data, size, clouds, rs) ==
    [total_records |-> Len(data),
     total_chunks |-> NumChunks(data, size) * Len(clouds),
     chunk_size |-> size,
     success_count |-> SuccessCount(rs),
     failure_count |-> Len(rs) - SuccessCount(rs),
     clouds_tested |-> clouds]

\* DataProcessor(db_manager, chunk_size) has been constructed
DPInit ==
    /\ dpData \in {[k \in 1..n |-> k] : n \in 0..MaxCloudData}
    /\ chunk_size \in 1..MaxChunk
    /\ mock_settings \in MockSettings
    /\ dpPc = [c \in Clouds |-> "none"]
    /\ cloud_results = [c \in Clouds |-> <<>>]
    /\ chunk_id = [c \in Clouds |-> 0]
    /\ dpI = [c \in Clouds |-> 0]
    /\ dpChunk = [c \in Clouds |-> <<>>]
    /\ dpCalls = [c \in Clouds |-> <<>>]
    /\ dpInFlight = [c \in Clouds |-> {}]
    /\ dpAllPc = "idle"
    /\ dpClouds = <<>>
    /\ dpResults = <<>>
    /\ dpStats = NoneVal
    /\ dpInvocations = 0
    /\ dpEarlier = 0

\* no performance test is looked at
DpIdle ==
    /\ dpData = <<>>
    /\ chunk_size = 1
    /\ mock_settings = [enabled |-> FALSE, latency_ranges |-> FALSE]
    /\ dpPc = [c \in Clouds |-> "done"]
    /\ cloud_results = [c \in Clouds |-> <<>>]
    /\ chunk_id = [c \in Clouds |-> 0]
    /\ dpI = [c \in Clouds |-> 0]
    /\ dpChunk = [c \in Clouds |-> <<>>]
    /\ dpCalls = [c \in Clouds |-> <<>>]
    /\ dpInFlight = [c \in Clouds |-> {}]
    /\ dpAllPc = "returned"
    /\ dpClouds = <<>>
    /\ dpResults = <<>>
    /\ dpStats = NoneVal
    /\ dpInvocations = MaxInvocations
    /\ dpEarlier = 0

\* process_all_clouds up to the gather without self.results.clear()
ProcessAllCloudsKeeping ==
    /\ dpAllPc \in {"idle", "returned"}
    /\ dpInvocations < MaxInvocations
    /\ dpInvocations' = dpInvocations + 1
    /\ dpEarlier' = Len(dpResults)
    /\ \E clouds \in CloudLists :
          /\ dpClouds' = clouds
          /\ dpPc' = [c \in Clouds |->
                IF \E k \in 1..Len(clouds) : clouds[k] = c THEN "test" ELSE "none"]
    /\ cloud_results' = [c \in Clouds |-> <<>>]
    /\ chunk_id' = [c \in Clouds |-> 0]
    /\ dpI' = [c \in Clouds |-> 0]
    /\ dpChunk' = [c \in Clouds |-> <<>>]
    /\ dpCalls' = [c \in Clouds |-> <<>>]
    /\ dpStats' = NoneVal
    /\ dpAllPc' = "gather"
    /\ UNCHANGED <<dpData, chunk_size, mock_settings, dpInFlight, dpResults>>
    /\ UNCHANGED exceptDp

\* process_all_clouds up to the gather: the results are cleared and one
\* process_single_cloud task is made per cloud of the list
ProcessAllClouds ==
    /\ dpAllPc \in {"idle", "returned"}
    /\ dpInvocations < MaxInvocations
    /\ dpInvocations' = dpInvocations + 1
    /\ dpEarlier' = Len(dpResults)
    /\ dpResults' = <<>>
    /\ \E clouds \in CloudLists :
          /\ dpClouds' = clouds
          /\ dpPc' = [c \in Clouds |->
                IF \E k \in 1..Len(clouds) : clouds[k] = c THEN "test" ELSE "none"]
    /\ cloud_results' = [c \in Clouds |-> <<>>]
    /\ chunk_id' = [c \in Clouds |-> 0]
    /\ dpI' = [c \in Clouds |-> 0]
    /\ dpChunk' = [c \in Clouds |-> <<>>]
    /\ dpCalls' = [c \in Clouds |-> <<>>]
    /\ dpStats' = NoneVal
    /\ dpAllPc' = "gather"
    /\ UNCHANGED <<dpData, chunk_size, mock_settings, dpInFlight>>
    /\ UNCHANGED exceptDp

\* asyncio.gather has every task's list: the lists are appended to
\* self.results in the order of clouds and the statistics are returned
Gather ==
    /\ dpAllPc = "gather"
    /\ \A k \in 1..Len(dpClouds) : dpPc[dpClouds[k]] = "done"
    /\ dpResults' = dpResults \o Flatten(dpClouds, cloud_results)
    /\ dpStats' = ProcessingStats(dpData, chunk_size, dpClouds, dpResults')
    /\ dpAllPc' = "returned"
    /\ UNCHANGED <<dpData, chunk_size, mock_settings, dpPc, cloud_results,
                   chunk_id, dpI, dpChunk, dpCalls, dpInFlight, dpClouds,
                   dpInvocations, dpEarlier>>
    /\ UNCHANGED exceptDp

\* process_single_cloud going on to create_table after a failed connection
\* test
TestConnectionGoingOn(c) ==
    /\ dpPc[c] = "test"
    /\ \E r \in BOOLEAN :
          LET connection_success == test_connection(mock_settings, r)
          IN /\ dpCalls' = [dpCalls EXCEPT
                   ![c] = Append(@, DbCall("test_connection", connection_success))]
             /\ IF ~connection_success
                THEN cloud_results' = [cloud_results EXCEPT ![c] =
                        Append(@, FailureResult(c, "Failed to connect"))]
                ELSE UNCHANGED cloud_results
             /\ dpPc' = [dpPc EXCEPT ![c] = "create"]
    /\ UNCHANGED <<dpData, chunk_size, mock_settings, chunk_id, dpI, dpChunk,
                   dpInFlight>>
    /\ UNCHANGED <<dpAllPc, dpClouds, dpResults, dpStats, dpInvocations, dpEarlier>>
    /\ UNCHANGED exceptDp

\* process_single_cloud up to the connection test's answer: on failure one
\* failure result is returned
TestConnection(c) ==
    /\ dpPc[c] = "test"
    /\ \E r \in BOOLEAN :
          LET connection_success == test_connection(mock_settings, r)
          IN /\ dpCalls' = [dpCalls EXCEPT
                   ![c] = Append(@, DbCall("test_connection", connection_success))]
             /\ IF ~connection_success
                THEN /\ cloud_results' = [cloud_results EXCEPT ![c] =
                           Append(@, FailureResult(c, "Failed to connect"))]
                     /\ dpPc' = [dpPc EXCEPT ![c] = "done"]
                ELSE /\ dpPc' = [dpPc EXCEPT ![c] = "create"]
                     /\ UNCHANGED cloud_results
    /\ UNCHANGED <<dpData, chunk_size, mock_settings, chunk_id, dpI, dpChunk,
                   dpInFlight>>
    /\ UNCHANGED <<dpAllPc, dpClouds, dpResults, dpStats, dpInvocations, dpEarlier>>
    /\ UNCHANGED exceptDp

\* process_single_cloud at create_table: on failure one failure result is
\* returned
CreateTable(c) ==
    /\ dpPc[c] = "create"
    /\ LET table_created == create_table(mock_settings)
       IN /\ dpCalls' = [dpCalls EXCEPT
                ![c] = Append(@, DbCall("create_table", table_created))]
          /\ IF ~table_created
             THEN /\ cloud_results' = [cloud_results EXCEPT ![c] =
                        Append(@, FailureResult(c, "Failed to create table"))]
                  /\ dpPc' = [dpPc EXCEPT ![c] = "done"]
             ELSE /\ dpPc' = [dpPc EXCEPT ![c] = "chunks"]
                  /\ UNCHANGED cloud_results
    /\ UNCHANGED <<dpData, chunk_size, mock_settings, chunk_id, dpI, dpChunk,
                   dpInFlight>>
    /\ UNCHANGED <<dpAllPc, dpClouds, dpResults, dpStats, dpInvocations, dpEarlier>>
    /\ UNCHANGED exceptDp

\* the for statement going on to the next chunk without awaiting the
\* batch_insert it has started
NextChunkNotAwaiting(c) ==
    /\ dpPc[c] \in {"chunks", "insert"}
    /\ IF dpI[c] < Len(dpData)
       THEN /\ dpChunk' = [dpChunk EXCEPT ![c] = Slice(dpData, dpI[c], chunk_size)]
            /\ dpI' = [dpI EXCEPT ![c] = @ + chunk_size]
            /\ chunk_id' = [chunk_id EXCEPT ![c] = @ + 1]
            /\ dpCalls' = [dpCalls EXCEPT
                  ![c] = Append(@, [call |-> "batch_insert", ret |-> "awaited"])]
            /\ dpInFlight' = [dpInFlight EXCEPT ![c] = @ \cup {chunk_id[c] + 1}]
            /\ dpPc' = [dpPc EXCEPT ![c] = "insert"]
       ELSE /\ dpPc' = [dpPc EXCEPT ![c] = "done"]
            /\ UNCHANGED <<dpChunk, dpI, chunk_id, dpCalls, dpInFlight>>
    /\ UNCHANGED <<dpData, chunk_size, mock_settings, cloud_results>>
    /\ UNCHANGED <<dpAllPc, dpClouds, dpResults, dpStats, dpInvocations, dpEarlier>>
    /\ UNCHANGED exceptDp

\* The for statement over chunk_data(data): the next chunk is handed to
\* batch_insert, or the generator is used up and cloud_results is returned
NextChunk(c) ==
    /\ dpPc[c] = "chunks"
    /\ IF dpI[c] < Len(dpData)
       THEN /\ dpChunk' = [dpChunk EXCEPT ![c] = Slice(dpData, dpI[c], chunk_size)]
            /\ dpI' = [dpI EXCEPT ![c] = @ + chunk_size]
            /\ chunk_id' = [chunk_id EXCEPT ![c] = @ + 1]
            /\ dpCalls' = [dpCalls EXCEPT
                  ![c] = Append(@, [call |-> "batch_insert", ret |-> "awaited"])]
            /\ dpInFlight' = [dpInFlight EXCEPT ![c] = @ \cup {chunk_id[c] + 1}]
            /\ dpPc' = [dpPc EXCEPT ![c] = "insert"]
       ELSE /\ dpPc' = [dpPc EXCEPT ![c] = "done"]
            /\ UNCHANGED <<dpChunk, dpI, chunk_id, dpCalls, dpInFlight>>
    /\ UNCHANGED <<dpData, chunk_size, mock_settings, cloud_results>>
    /\ UNCHANGED <<dpAllPc, dpClouds, dpResults, dpStats, dpInvocations, dpEarlier>>
    /\ UNCHANGED exceptDp

\* the loop ending at the first chunk whose result is a failure
BatchInsertReturnStopping(c) ==
    /\ dpPc[c] = "insert"
    /\ \E r \in BOOLEAN :
          LET ret == batch_insert(mock_settings, c, chunk_id[c], dpChunk[c], r)
          IN /\ cloud_results' = [cloud_results EXCEPT ![c] = Append(@, ret.result)]
             /\ dpPc' = [dpPc EXCEPT ![c] = IF ret.result.success THEN "chunks" ELSE "done"]
    /\ dpInFlight' = [dpInFlight EXCEPT ![c] = @ \ {chunk_id[c]}]
    /\ UNCHANGED <<dpData, chunk_size, mock_settings, chunk_id, dpI, dpChunk,
                   dpCalls>>
    /\ UNCHANGED <<dpAllPc, dpClouds, dpResults, dpStats, dpInvocations, dpEarlier>>
    /\ UNCHANGED exceptDp

\* The awaited batch_insert is over: its result is appended; an exception
\* would leave process_single_cloud
BatchInsertReturn(c) ==
    /\ dpPc[c] = "insert"
    /\ \E r \in BOOLEAN :
          LET ret == batch_insert(mock_settings, c, chunk_id[c], dpChunk[c], r)
          IN IF ret.raised
             THEN /\ dpPc' = [dpPc EXCEPT ![c] = "raised"]
                  /\ UNCHANGED cloud_results
             ELSE /\ cloud_results' = [cloud_results EXCEPT
                        ![c] = Append(@, ret.result)]
                  /\ dpPc' = [dpPc EXCEPT ![c] = "chunks"]
    /\ dpInFlight' = [dpInFlight EXCEPT ![c] = @ \ {chunk_id[c]}]
    /\ UNCHANGED <<dpData, chunk_size, mock_settings, chunk_id, dpI, dpChunk,
                   dpCalls>>
    /\ UNCHANGED <<dpAllPc, dpClouds, dpResults, dpStats, dpInvocations, dpEarlier>>
    /\ UNCHANGED exceptDp

DPNext ==
    \/ ProcessAllClouds
    \/ Gather
    \/ \E c \in Clouds : TestConnection(c)
    \/ \E c \in Clouds : CreateTable(c)
    \/ \E c \in Clouds : NextChunk(c)
    \/ \E c \in Clouds : BatchInsertReturn(c)

(***************************************************************************)
(* get_table_name_from_filename and process_file (migrate_cli.py): which   *)
(* table a file goes to.  File names are sequences of characters.          *)
(***************************************************************************)
\* "BidPublicInfoService_BID_" and "PubDataOpnStdService_"
BidStem ==
    <<"B", "i", "d", "P", "u", "b", "l", "i", "c", "I", "n", "f", "o", "S",
      "e", "r", "v", "i", "c", "e", "_", "B", "I", "D", "_">>
PubStem ==
    <<"P", "u", "b", "D", "a", "t", "a", "O", "p", "n", "S", "t", "d", "S",
      "e", "r", "v", "i", "c", "e", "_">>

\* the five patterns of get_table_name_from_filename, in the order of its
\* if/elif chain
PrefixCNSTWK == BidStem \o <<"C", "N", "S", "T", "W", "K", "_">>
PrefixSERVC == BidStem \o <<"S", "E", "R", "V", "C", "_">>
PrefixTHNG == BidStem \o <<"T", "H", "N", "G", "_">>
PrefixFRGCPT == BidStem \o <<"F", "R", "G", "C", "P", "T", "_">>
PrefixScsBidInfo ==
    PubStem \o <<"S", "c", "s", "B", "i", "d", "I", "n", "f", "o", "_">>

Uppers ==
    <<"A", "B", "C", "D", "E", "F", "G", "H", "I", "J", "K", "L", "M", "N",
      "O", "P", "Q", "R", "S", "T", "U", "V", "W", "X", "Y", "Z">>
Lowers ==
    <<"a", "b", "c", "d", "e", "f", "g", "h", "i", "j", "k", "l", "m", "n",
      "o", "p", "q", "r", "s", "t", "u", "v", "w", "x", "y", "z">>

\* str.lower() and str.upper() of one character, and of a string
LowerChar(ch) ==
    IF \E k \in 1..26 : Uppers[k] = ch
    THEN Lowers[CHOOSE k \in 1..26 : Uppers[k] = ch] ELSE ch
UpperChar(ch) ==
    IF \E k \in 1..26 : Lowers[k] = ch
    THEN Uppers[CHOOSE k \in 1..26 : Lowers[k] = ch] ELSE ch
Lower(str) == [k \in 1..Len(str) |-> LowerChar(str[k])]
Upper(str) == [k \in 1..Len(str) |-> UpperChar(str[k])]

\* a startswith that does not tell upper case from lower case
StartsWithIgnoringCase(str, prefix) ==
    /\ Len(str) >= Len(prefix)
    /\ Lower(SubSeq(str, 1, Len(prefix))) = Lower(prefix)

\* str.startswith(prefix)
StartsWith(str, prefix) ==
    /\ Len(str) >= Len(prefix)
    /\ SubSeq(str, 1, Len(prefix)) = prefix

get_table_name_from_filename(filename) ==
    IF StartsWith(filename, PrefixCNSTWK) THEN "bid_pblanclistinfo_cnstwk"
    ELSE IF StartsWith(filename, PrefixSERVC) THEN "bid_pblanclistinfo_servc"
    ELSE IF StartsWith(filename, PrefixTHNG) THEN "bid_pblanclistinfo_thng"
    ELSE IF StartsWith(filename, PrefixFRGCPT) THEN "bid_pblanclistinfo_frgcpt"
    ELSE IF StartsWith(filename, PrefixScsBidInfo) THEN "opn_std_scsbid_info"
    ELSE NoneVal

\* The names of the *.json files tried: for each pattern the pattern itself,
\* in lower case, in upper case, with its first letter in lower case,
\* without its last character and behind another character, each alone and
\* followed by "1.json"; and two names unlike any pattern
NameStarts ==
    UNION {{pre, Lower(pre), Upper(pre),
            <<LowerChar(pre[1])>> \o SubSeq(pre, 2, Len(pre)),
            SubSeq(pre, 1, Len(pre) - 1), <<"x">> \o pre} :
           pre \in {PrefixCNSTWK, PrefixSERVC, PrefixTHNG, PrefixFRGCPT,
                    PrefixScsBidInfo}}
Filenames ==
    {start \o rest : start \in NameStarts,
                     rest \in {<<>>, <<"1", ".", "j", "s", "o", "n">>}}
       \cup {<<"d", "a", "t", "a", ".", "j", "s", "o", "n">>, <<".", "j", "s", "o", "n">>}

\* process_file is called on one file of the data directory
RTInit ==
    /\ rtFilename \in Filenames
    /\ rtPc = "call"
    /\ rtTable = NoneVal
    /\ rtResult = [status |-> "none"]
    /\ rtOpened = FALSE
    /\ rtDbCalls = 0

\* no process_file call is looked at
RtIdle ==
    /\ rtFilename = <<>>
    /\ rtPc = "returned"
    /\ rtTable = NoneVal
    /\ rtResult = [status |-> "none"]
    /\ rtOpened = FALSE
    /\ rtDbCalls = 0

\* process_file up to "if not table_name": a name without table is skipped
RtRoute ==
    /\ rtPc = "call"
    /\ rtTable' = get_table_name_from_filename(rtFilename)
    /\ IF rtTable' = NoneVal
       THEN /\ rtResult' = [filename |-> rtFilename, status |-> "skipped",
                            reason |-> "unknown file pattern"]
            /\ rtPc' = "returned"
       ELSE /\ rtPc' = "reading"
            /\ UNCHANGED rtResult
    /\ UNCHANGED <<rtFilename, rtOpened, rtDbCalls>>
    /\ UNCHANGED exceptRt

\* process_file: open and json.load; text that is not JSON and JSON that is
\* not a list end in an error result
RtRead ==
    /\ rtPc = "reading"
    /\ rtOpened' = TRUE
    /\ \E kind \in FileKinds \ {"unknown"} :
          IF kind = "table"
          THEN /\ rtPc' = "insert"
               /\ UNCHANGED rtResult
          ELSE /\ rtResult' = [filename |-> rtFilename, status |-> "error",
                               reason |-> IF kind = "notlist"
                                          THEN "invalid data format"
                                          ELSE "JSONDecodeError"]
               /\ rtPc' = "returned"
    /\ UNCHANGED <<rtFilename, rtTable, rtDbCalls>>
    /\ UNCHANGED exceptRt

\* process_file: insert_batch, which queries the table's columns and
\* inserts; its exception ends in an error result
RtInsert ==
    /\ rtPc = "insert"
    /\ rtDbCalls' = rtDbCalls + 1
    /\ \E ok \in BOOLEAN :
          rtResult' = [filename |-> rtFilename,
                       status |-> IF ok THEN "success" ELSE "error",
                       table |-> rtTable]
    /\ rtPc' = "returned"
    /\ UNCHANGED <<rtFilename, rtTable, rtOpened>>
    /\ UNCHANGED exceptRt

RTNext == RtRoute \/ RtRead \/ RtInsert

(***************************************************************************)
(* initialize_session_state (utils/session_state.py).  st.session_state is *)
(* a function from the keys present to their values; a value is written   *)
(* as its Python literal.                                                  *)
(***************************************************************************)
MaxReruns == 2

\* a value some tab has stored under a key
TabValue == "set by a tab"

\* a key of the session that initialize_session_state does not name
OtherKey == "processing_stats"

\* st.session_state[key] = value, whether or not the key is present
SetAlways(ss, key, value) ==
    [k \in DOMAIN ss \cup {key} |-> IF k = key THEN value ELSE ss[k]]

\* if key not in st.session_state: st.session_state[key] = value
SetDefault(ss, key, value) ==
    IF key \in DOMAIN ss THEN ss
    ELSE [k \in DOMAIN ss \cup {key} |-> IF k = key THEN value ELSE ss[k]]

\* the seven if statements, in their order
initialize_session_state(ss) ==
    LET s1 == SetDefault(ss, "migration_in_progress", "False")
        s2 == SetDefault(s1, "current_batch_stats", "[]")
        s3 == SetDefault(s2, "migration_progress",
                 "{'current_file': '', 'files_completed': 0, 'total_files': 0, 'current_batch': 0, 'total_batches_estimated': 0}")
        s4 == SetDefault(s3, "migration_files_queue", "[]")
        s5 == SetDefault(s4, "migration_results", "[]")
        s6 == SetDefault(s5, "migration_migrator", "None")
    IN SetDefault(s6, "migration_initial_counts", "{}")

\* the seven keys the function names, each with the value it assigns
CanonicalDefaults ==
    [migration_in_progress |-> "False",
     current_batch_stats |-> "[]",
     migration_progress |->
        "{'current_file': '', 'files_completed': 0, 'total_files': 0, 'current_batch': 0, 'total_batches_estimated': 0}",
     migration_files_queue |-> "[]",
     migration_results |-> "[]",
     migration_migrator |-> "None",
     migration_initial_counts |-> "{}"]
CanonicalKeys == DOMAIN CanonicalDefaults

\* the sessions a script run can find: each canonical key absent, holding
\* its default or holding a tab's value; the other key absent or set
SessionStates ==
    {[k \in {j \in CanonicalKeys \cup {OtherKey} : choice[j] # "absent"} |->
        IF choice[k] = "default" THEN CanonicalDefaults[k] ELSE TabValue] :
     choice \in {c \in [CanonicalKeys \cup {OtherKey} -> {"absent", "default", "set"}] :
                   c[OtherKey] # "default"}}

\* a script run begins
SSInit ==
    /\ session_state \in SessionStates
    /\ ssBefore = session_state
    /\ ssCalls = 0

\* no dashboard session is looked at
SsIdle ==
    /\ session_state = <<>>
    /\ ssBefore = <<>>
    /\ ssCalls = 0

\* initialize_session_state(), at the top of every script run
InitializeSessionState ==
    /\ ssCalls < MaxReruns
    /\ ssBefore' = session_state
    /\ session_state' = initialize_session_state(session_state)
    /\ ssCalls' = ssCalls + 1
    /\ UNCHANGED exceptSs

SSNext == InitializeSessionState

(***************************************************************************)
(* The usage dashboard's two ways of loading session files                 *)
(* (calude-monitor.py).  A session file is the sequence of its lines; a    *)
(* file is named by its position among the files handed to the loader.     *)
(***************************************************************************)
MaxSessionFiles == 2
MaxLines == 2

\* the lines a session file can hold: two JSON objects, a cut-off object
\* and a blank line
SessionLines == {"{\"n\": 1}", "{\"n\": 2}", "{\"n\": ", ""}

\* line.strip() is empty
IsBlank(line) == line = ""

\* json.loads(line): the object, or JSONDecodeError
json_loads(line) ==
    CASE line = "{\"n\": 1}" -> [raised |-> FALSE, value |-> [n |-> 1]]
      [] line = "{\"n\": 2}" -> [raised |-> FALSE, value |-> [n |-> 2]]
      [] OTHER -> [raised |-> TRUE, value |-> "JSONDecodeError"]

\* parse_jsonl_file: each non-blank line in its own try; a line that does
\* not parse is warned about and passed over
parse_jsonl_file(file) ==
    LET kept == SelectSeq(file, LAMBDA line :
                    ~IsBlank(line) /\ ~json_loads(line).raised)
    IN [k \in 1..Len(kept) |-> json_loads(kept[k]).value]

\* the body of the try in the upload loop: json.loads of every non-blank
\* line, with no handler of its own
UploadedMessages(file) ==
    LET lines == SelectSeq(file, LAMBDA line : ~IsBlank(line))
    IN IF \E k \in 1..Len(lines) : json_loads(lines[k]).raised
       THEN [raised |-> TRUE, messages |-> <<>>]
       ELSE [raised |-> FALSE,
             messages |-> [k \in 1..Len(lines) |-> json_loads(lines[k]).value]]

Session(k, project, messages) ==
    [session_id |-> k, project_name |-> project, messages |-> messages]

\* the loop over the .jsonl files of a project folder: a file with no
\* message adds no session
RECURSIVE ProjectSessions(_, _)
ProjectSessions(fs, k) ==
    IF k = 0 THEN <<>>
    ELSE LET before == ProjectSessions(fs, k - 1)
             messages == parse_jsonl_file(fs[k])
         IN IF messages # <<>>
            THEN Append(before, Session(k, "project", messages))
            ELSE before

\* the loop over the uploaded files: an exception anywhere in a file's try
\* is reported and the file adds no session
RECURSIVE UploadedSessions(_, _)
UploadedSessions(fs, k) ==
    IF k = 0 THEN <<>>
    ELSE LET before == UploadedSessions(fs, k - 1)
             read == UploadedMessages(fs[k])
         IN IF read.raised THEN before
            ELSE Append(before, Session(k, "uploaded", read.messages))

\* the session files found in the folder or handed to the uploader
JLInit ==
    /\ jlFiles \in UNION {[1..n -> UNION {[1..m -> SessionLines] : m \in 0..MaxLines}] :
                           n \in 0..MaxSessionFiles}
    /\ jlPath = "none"
    /\ jlSessions = <<>>

\* no session file is looked at
JlIdle ==
    /\ jlFiles = <<>>
    /\ jlPath = "idle"
    /\ jlSessions = <<>>

\* load_button and folder_path: load_all_sessions_from_projects
LoadAllSessionsFromProjects ==
    /\ jlPath = "none"
    /\ jlPath' = "project"
    /\ jlSessions' = ProjectSessions(jlFiles, Len(jlFiles))
    /\ UNCHANGED jlFiles
    /\ UNCHANGED exceptJl

\* elif uploaded_files: the upload loop
LoadUploadedFiles ==
    /\ jlPath = "none"
    /\ jlFiles # <<>>
    /\ jlPath' = "upload"
    /\ jlSessions' = UploadedSessions(jlFiles, Len(jlFiles))
    /\ UNCHANGED jlFiles
    /\ UNCHANGED exceptJl

JLNext == LoadAllSessionsFromProjects \/ LoadUploadedFiles

(***************************************************************************)
(* calculate_performance_metrics and analyze_performance_comparison        *)
(* (utils/comparison_utils.py).  A test run is a dictionary: the function  *)
(* from the keys present to their values.  The configuration a row copies  *)
(* from its run (timestamp, provider, instance type, batch size,           *)
(* connections) travels with test_id.  A DataFrame is the sequence of its  *)
(* rows; pandas' average rank is a multiple of one half and is held as     *)
(* twice its value.                                                        *)
(***************************************************************************)
MaxRuns == 3

PmTestIds == {"t1", "t2"}
PmMeasures == {1, 2}

\* the runs an index can hold: running or failed, completed with the
\* measurements complete_migration stores, or only marked completed
PmRuns ==
    {[test_id |-> id, status |-> s] :
        id \in PmTestIds, s \in {"running", "error", "completed"}}
    \cup {[test_id |-> id, status |-> "completed",
           total_duration_seconds |-> d, average_records_per_second |-> t] :
            id \in PmTestIds, d \in PmMeasures, t \in PmMeasures}

\* a test that lets every run through that is not running
IsNotRunning(test_run) == DictGet(test_run, "status", NoneVal) # "running"

\* test_run.get('status') == 'completed'
IsCompleted(test_run) == DictGet(test_run, "status", NoneVal) = "completed"

\* the metric dictionary of one completed run
Metric(test_run) ==
    [test_id |-> test_run["test_id"],
     total_duration_seconds |-> DictGet(test_run, "total_duration_seconds", 0),
     average_records_per_second |-> DictGet(test_run, "average_records_per_second", 0)]

\* Series.rank(): twice the average rank of row i, ascending or descending
Rank2(rows, col, i, ascending) ==
    LET before == {j \in 1..Len(rows) :
                     IF ascending THEN rows[j][col] < rows[i][col]
                     ELSE rows[j][col] > rows[i][col]}
        same == {j \in 1..Len(rows) : rows[j][col] = rows[i][col]}
    IN 2 * Cardinality(before) + Cardinality(same) + 1

\* calculate_performance_metrics: the loop, then the two rank columns
calculate_performance_metrics(test_runs) ==
    LET completed == SelectSeq(test_runs, IsCompleted)
        metrics == [i \in 1..Len(completed) |-> Metric(completed[i])]
    IN [i \in 1..Len(metrics) |->
          DictUpdate(metrics[i],
             [duration_rank |-> Rank2(metrics, "total_duration_seconds", i, TRUE),
              throughput_rank |-> Rank2(metrics, "average_records_per_second", i, FALSE)])]

\* df[col].idxmax() / idxmin(): the first row holding the extreme value
IdxMax(df, col) ==
    CHOOSE i \in 1..Len(df) :
        /\ \A j \in 1..Len(df) : df[j][col] <= df[i][col]
        /\ \A j \in 1..(i - 1) : df[j][col] < df[i][col]
IdxMin(df, col) ==
    CHOOSE i \in 1..Len(df) :
        /\ \A j \in 1..Len(df) : df[j][col] >= df[i][col]
        /\ \A j \in 1..(i - 1) : df[j][col] > df[i][col]

Performer(row, col) == [test_id |-> row["test_id"], value |-> row[col]]

\* analyze_performance_comparison: no_data for an empty frame, else the
\* best and worst performers
analyze_performance_comparison(test_runs) ==
    LET df == calculate_performance_metrics(test_runs)
    IN IF df = <<>>
       THEN [status |-> "no_data", message |-> "No completed test runs to compare"]
       ELSE [status |-> "success",
             total_tests |-> Len(df),
             best_throughput |->
                Performer(df[IdxMax(df, "average_records_per_second")], "average_records_per_second"),
             worst_throughput |->
                Performer(df[IdxMin(df, "average_records_per_second")], "average_records_per_second"),
             fastest_duration |->
                Performer(df[IdxMin(df, "total_duration_seconds")], "total_duration_seconds"),
             slowest_duration |->
                Performer(df[IdxMax(df, "total_duration_seconds")], "total_duration_seconds")]

\* the runs chosen for comparison; neither function has been called
PMInit ==
    /\ pmRuns \in UNION {[1..n -> PmRuns] : n \in 0..MaxRuns}
    /\ pmDf = <<>>
    /\ pmAnalysis = [status |-> "not called"]
    /\ pmCalled = {}

\* no comparison is looked at
PmIdle ==
    /\ pmRuns = <<>>
    /\ pmDf = <<>>
    /\ pmAnalysis = [status |-> "not called"]
    /\ pmCalled = {"idle"}

\* df = calculate_performance_metrics(test_runs)
CalculatePerformanceMetrics ==
    /\ pmCalled \subseteq {"analysis"}
    /\ pmDf' = calculate_performance_metrics(pmRuns)
    /\ pmCalled' = pmCalled \cup {"metrics"}
    /\ UNCHANGED <<pmRuns, pmAnalysis>>
    /\ UNCHANGED exceptPm

\* analysis = analyze_performance_comparison(test_runs)
AnalyzePerformanceComparison ==
    /\ pmCalled \subseteq {"metrics"}
    /\ pmAnalysis' = analyze_performance_comparison(pmRuns)
    /\ pmCalled' = pmCalled \cup {"analysis"}
    /\ UNCHANGED <<pmRuns, pmDf>>
    /\ UNCHANGED exceptPm

PMNext == CalculatePerformanceMetrics \/ AnalyzePerformanceComparison

\* ---- specifications -----------------------------------------------------
\* every unit at rest
UnitIdle == IdIdle /\ CdIdle /\ DpIdle /\ RtIdle /\ SsIdle /\ JlIdle /\ PmIdle

Init == TRInit /\ SWInit /\ CLIInit /\ UnitIdle
\* the migration tools at rest, one unit under way
MigrationIdle == TRInit /\ SWInit /\ CLIInit
InitID == MigrationIdle /\ IDInit /\ CdIdle /\ DpIdle /\ RtIdle /\ SsIdle /\ JlIdle /\ PmIdle
InitCD == MigrationIdle /\ IdIdle /\ CDInit /\ DpIdle /\ RtIdle /\ SsIdle /\ JlIdle /\ PmIdle
InitDP == MigrationIdle /\ IdIdle /\ CdIdle /\ DPInit /\ RtIdle /\ SsIdle /\ JlIdle /\ PmIdle
InitRT == MigrationIdle /\ IdIdle /\ CdIdle /\ DpIdle /\ RTInit /\ SsIdle /\ JlIdle /\ PmIdle
InitSS == MigrationIdle /\ IdIdle /\ CdIdle /\ DpIdle /\ RtIdle /\ SSInit /\ JlIdle /\ PmIdle
InitJL == MigrationIdle /\ IdIdle /\ CdIdle /\ DpIdle /\ RtIdle /\ SsIdle /\ JLInit /\ PmIdle
InitPM == MigrationIdle /\ IdIdle /\ CdIdle /\ DpIdle /\ RtIdle /\ SsIdle /\ JlIdle /\ PMInit

SpecTRM == Init /\ [][TRNext]_vars
SpecTRMSeq == Init /\ [][TRSeqNext]_vars
SpecSW == Init /\ [][SWNext]_vars
SpecSWSeq == Init /\ [][SWSeqNext]_vars
SpecCLI == Init /\ [][CLINext]_vars
SpecCLISeq == Init /\ [][CLISeqNext]_vars
SpecCLIPar == Init /\ [][CLIParNext]_vars
SpecID == InitID /\ [][IDNext]_vars
SpecCD == InitCD /\ [][CDNext]_vars
SpecDP == InitDP /\ [][DPNext]_vars
SpecRT == InitRT /\ [][RTNext]_vars
SpecSS == InitSS /\ [][SSNext]_vars
SpecJL == InitJL /\ [][JLNext]_vars
SpecPM == InitPM /\ [][PMNext]_vars

(***************************************************************************)
(* Properties                                                              *)
(***************************************************************************)
TrAllIdle == \A t \in Threads : trPc[t] = "idle"
SwAllIdle == \A t \in Threads : swPos[t] = 0

\* C1: the status of an index entry changes only from running to completed
\* or from running to error; a completed or error entry keeps its status.
C1_StatusOnlyForward ==
    [][\A i \in 1..Len(indexFile) :
          (/\ i <= Len(indexFile')
           /\ indexFile'[i].test_id = indexFile[i].test_id
           /\ indexFile'[i].status # indexFile[i].status)
          => (/\ indexFile[i].status = "running"
              /\ indexFile'[i].status \in {"completed", "error"})]_vars

\* C2: the mutations of one StatsWriter are atomic among its threads: once
\* every call has returned (and nothing reset the files), the batches list
\* holds one record per add_batch_stat call, files_completed counts every
\* complete_file call and a current_batch written by update_progress is
\* still there.
C2_StatsMutationsAtomic ==
    (SwAllIdle /\ ~swReset) =>
        /\ Len(files["stats"].doc.batches) = swAdds
        /\ files["progress"].doc.files_completed = swFilesDone
        /\ swBatchSet => files["progress"].doc.current_batch # 0

\* C3: the index mutations of one TestRunManager are serialized: once every
\* call has returned, the index holds one entry per create_test_run call and
\* every field set by a returned update of an existing run is still set.
C3_IndexMutationsSerialized ==
    TrAllIdle =>
        /\ Len(indexFile) = trCreated
        /\ \A p \in trApplied :
              p[2] \in {"error_message", "total_records"} =>
                 LET i == FirstMatch(indexFile, p[1])
                 IN /\ i # 0
                    /\ indexFile[i][p[2]] # NewTestRun(p[1])[p[2]]

\* C4: no read made through the StatsWriter, by a read_* call or inside a
\* mutation, ever finds a partially written file.
C4_ReadsSeeWholeDocument ==
    \A t \in Threads : swRet[t].kind # "JSONDecodeError"

\* C4 witness: a read_progress call returned the document that another
\* thread's error_migration wrote, and that other thread is now inside
\* _write_json with the progress file truncated.
C4_Witness ==
    \E t \in Threads : \E u \in Threads \ {t} :
        /\ swOp[t].name = "read_progress"
        /\ swRet[t].kind = "doc"
        /\ swRet[t].doc.status = "error"
        /\ swPhase[u] = "dump"
        /\ ~files["progress"].whole

Progress == files["progress"].doc
StatBatches == files["stats"].doc.batches

\* C5: within one CLI run, cumulative_records never decreases from one
\* appended batch stat to the next, and total_records_processed of the
\* progress document never decreases.
C5_CumulativeNonDecreasing ==
    [][/\ \A i \in 2..Len(StatBatches') :
            StatBatches'[i].cumulative_records >= StatBatches'[i - 1].cumulative_records
       /\ Progress'.total_records_processed >= Progress.total_records_processed]_vars

\* C6: after a keyboard interrupt during a file, no later file is processed
\* and the run ends with progress status error and the message
\* "Interrupted by user".
C6_InterruptRecordedAsError ==
    (cliPc = "done" /\ interruptedAt > 0) =>
        /\ fileIdx = interruptedAt
        /\ Len(results) = interruptedAt - 1
        /\ Progress.status = "error"
        /\ DictGet(Progress, "error_message", NoneVal) = "Interrupted by user"

\* C7: a CLI run has an index entry with status running while it executes,
\* and with status completed or error once it has ended.
C7_RunRegistered ==
    /\ cliPc \in {"file", "insert", "seq_batch", "submit", "collect", "unwind",
                  "file_done", "summary"}
          => \E i \in 1..Len(indexFile) : indexFile[i].status = "running"
    /\ cliPc = "done" => \E i \in 1..Len(indexFile) : indexFile[i].status = "completed"
    /\ cliPc = "raised" => \E i \in 1..Len(indexFile) : indexFile[i].status = "error"

RECURSIVE SumOk(_)
\* records of the batches 1..b whose insert succeeded
SumOk(b) ==
    IF b = 0 THEN 0
    ELSE (IF batchState[b] = "ok" THEN BatchLen(curFile.n, batch_size, b) ELSE 0)
            + SumOk(b - 1)

ParallelReturned == cliPc = "file_done" /\ num_connections > 1 /\ Len(batchState) > 0

\* C8: in the parallel path a failed batch does not stop the others: when
\* the table insert returns, every batch was started exactly once and the
\* total is the sum over the succeeded batches; and each step of the result
\* loop appends a batch stat (and counts the records) exactly when the batch
\* it handles succeeded.
C8_ParallelFailureIsolated ==
    [][/\ ParallelReturned' =>
            /\ \A b \in Batches' : attempts'[b] = 1 /\ Finished(b)'
            /\ total_inserted' = SumOk(Len(batchState))'
       /\ \A b \in Batches :
            (cliPc = "collect" /\ b \notin collected /\ b \in collected') =>
               IF batchState[b] = "ok"
               THEN /\ StatBatches' = Append(StatBatches,
                          BatchStat(b, BatchLen(curFile.n, batch_size, b),
                                    total_inserted'))
                    /\ total_inserted' =
                          total_inserted + BatchLen(curFile.n, batch_size, b)
               ELSE /\ StatBatches' = StatBatches
                    /\ total_inserted' = total_inserted]_vars

\* C8 witness: a parallel table insert returned with one batch failed and
\* another one succeeded and counted.
C8_Witness ==
    /\ ParallelReturned
    /\ \E b \in Batches : batchState[b] \in {"failed", "raised"}
    /\ \E b \in Batches : batchState[b] = "ok"
    /\ total_inserted > 0

C10_PoolBoundedConnectionsDedicated ==
    /\ Cardinality(Running) <= num_connections
    /\ \A b \in DOMAIN conns : \A c \in DOMAIN conns :
          conns[b].id = conns[c].id => b = c

\* C10 witness: the pool of two is full and a third batch waits in the queue
C10_Witness ==
    /\ num_connections = 2
    /\ Cardinality(Running) = 2
    /\ \E b \in Batches : batchState[b] = "queued"

\* _insert_batch_parallel is over for the current file without a keyboard
\* interrupt: it returned total_inserted, or an exception left it
ParallelLeft ==
    /\ num_connections > 1
    /\ interruptedAt = 0
    /\ Len(batchState) > 0
    /\ cliPc \in {"file_done", "file", "summary", "done"}

\* C11: once _insert_batch_parallel has returned or raised (batch success,
\* batch failure, or an exception raised while batches are being submitted),
\* every dedicated connection opened for one of its batches is closed.
C11_NoConnectionLeftOpen ==
    ParallelLeft => \A k \in 1..Len(conns) : conns[k].state = "closed"

\* C12: for a file routed to opn_std_scsbid_info, the record at 0-based
\* position p receives the id {bidNtceNo}_{bidNtceOrd}_{p+1} whatever the
\* batch size, and the ids of two records of the file always differ, also
\* when their bidNtceNo and bidNtceOrd are the same.
C12_IdsNumberedByFilePosition ==
    /\ \A k \in 1..Len(idIds) :
          idIds[k] = idRecords[k].bidNtceNo \o <<"_">> \o idRecords[k].bidNtceOrd
                        \o <<"_">> \o Digits(k)
    /\ \A k \in 1..Len(idIds) : \A l \in 1..Len(idIds) :
          idIds[k] = idIds[l] => k = l

\* C12 witness: a file of three records in batches of two, whose first and
\* third record have the same bidNtceNo and bidNtceOrd, went through
C12_Witness ==
    /\ idPc = "returned"
    /\ idBatchSize = 2
    /\ Len(idIds) = 3
    /\ idRecords[1] = idRecords[3]

\* the chunks joined in the order they were yielded
RECURSIVE Concat(_)
Concat(chunks) ==
    IF chunks = <<>> THEN <<>> ELSE Head(chunks) \o Concat(Tail(chunks))

\* C13: chunk_data over n records with chunk size c yields ceil(n/c)
\* chunks; every chunk but the last has exactly c elements, the last has
\* between 1 and c; the chunks joined in order are the input; and iterating
\* again over the same data yields the same chunks.
C13_ChunksPartitionData ==
    cdPc = "exhausted" =>
       LET n == Len(cdData)
           c == cdSize
           m == Len(cdOut)
       IN /\ m * c >= n
          /\ (m - 1) * c < n
          /\ \A k \in 1..(m - 1) : Len(cdOut[k]) = c
          /\ m > 0 => (Len(cdOut[m]) >= 1 /\ Len(cdOut[m]) <= c)
          /\ Concat(cdOut) = cdData
          /\ cdRun > 1 => cdOut = cdPrev

\* C13 witness: four records in chunks of three were iterated twice, the
\* last chunk being shorter
C13_Witness ==
    /\ cdPc = "exhausted"
    /\ cdRun = 2
    /\ Len(cdData) = 4
    /\ cdSize = 3
    /\ Len(cdOut) = 2
    /\ Len(cdOut[2]) = 1

\* the names of the db_manager calls process_single_cloud made for cloud c
CallsMade(c) == {dpCalls[c][k].call : k \in 1..Len(dpCalls[c])}

\* the call named name was made for cloud c and answered False
AnsweredFalse(c, name) ==
    \E k \in 1..Len(dpCalls[c]) :
       dpCalls[c][k].call = name /\ dpCalls[c][k].ret = "False"

\* cloud c's result list is exactly one failed result with chunk id 0
OneFailureResult(c) ==
    /\ Len(cloud_results[c]) = 1
    /\ ~cloud_results[c][1].success
    /\ cloud_results[c][1].chunk_id = 0

C15_SuccessIffNoErrorMessage ==
    \A c \in Clouds :
       /\ \A k \in 1..Len(cloud_results[c]) :
             cloud_results[c][k].success
                <=> (cloud_results[c][k].error_message = NoneVal)
       /\ dpPc[c] # "raised"
       /\ (mock_settings.enabled /\ ~mock_settings.latency_ranges) =>
             \A k \in 1..Len(cloud_results[c]) :
                cloud_results[c][k].chunk_id > 0 =>
                   /\ ~cloud_results[c][k].success
                   /\ cloud_results[c][k].error_message = "'latency_ranges'"

\* C15 witness: with latency_ranges missing from the mock settings a chunk
\* came back as a failed result, and the following chunk was still sent
C15_Witness ==
    /\ mock_settings.enabled
    /\ ~mock_settings.latency_ranges
    /\ Len(cloud_results["aws"]) = 1
    /\ cloud_results["aws"][1].chunk_id = 1
    /\ dpPc["aws"] = "insert"

\* the single caller's call of the method name has returned and no later
\* call has begun
SeqReturnedFrom(name) == swPos[1] = 0 /\ swOp[1].name = name

\* C16: after start_migration(n) returns, whatever the files held before,
\* the progress document has status running, files_completed 0,
\* total_files n, current_batch 0, total_records_processed 0 and an empty
\* current_file, and the batches list of the stats document is empty.
C16_StartMigrationResets ==
    SeqReturnedFrom("start_migration") =>
       /\ files["progress"].whole
       /\ files["stats"].whole
       /\ Progress.status = "running"
       /\ Progress.files_completed = 0
       /\ Progress.total_files = swOp[1].arg
       /\ Progress.current_batch = 0
       /\ Progress.total_records_processed = 0
       /\ Progress.current_file = ""
       /\ StatBatches = <<>>

\* C16 witness: start_migration returned after a batch stat had been added
\* and a file completed
C16_Witness ==
    /\ SeqReturnedFrom("start_migration")
    /\ swAdds = 1
    /\ swFilesDone = 1

\* C17: after clear_all() returns, whatever the files held before, the
\* progress file holds status idle with zero counters, the stats file
\* {"batches": []} and the results file the empty document.
C17_ClearAllRestoresDefaults ==
    SeqReturnedFrom("clear_all") =>
       /\ Progress.status = "idle"
       /\ Progress.current_batch = 0
       /\ Progress.files_completed = 0
       /\ Progress.total_files = 0
       /\ Progress.total_records_processed = 0
       /\ files["stats"] = WholeFile(InitStats)
       /\ files["results"] = WholeFile(InitResults)

\* C18: get_table_name_from_filename gives a table exactly for the names
\* that begin, letter case included, with one of the five patterns, and
\* then that pattern's table; for any other name process_file returns
\* status skipped with reason "unknown file pattern" without opening the
\* file or sending anything to the database.
C18_RoutingByExactPrefix ==
    LET patterns == <<<<PrefixCNSTWK, "bid_pblanclistinfo_cnstwk">>,
                      <<PrefixSERVC, "bid_pblanclistinfo_servc">>,
                      <<PrefixTHNG, "bid_pblanclistinfo_thng">>,
                      <<PrefixFRGCPT, "bid_pblanclistinfo_frgcpt">>,
                      <<PrefixScsBidInfo, "opn_std_scsbid_info">>>>
        Begins(k) == /\ Len(rtFilename) >= Len(patterns[k][1])
                     /\ \A j \in 1..Len(patterns[k][1]) :
                           rtFilename[j] = patterns[k][1][j]
    IN rtPc # "call" =>
          /\ \A k \in 1..5 : Begins(k) => rtTable = patterns[k][2]
          /\ (\A k \in 1..5 : ~Begins(k)) =>
                /\ rtTable = NoneVal
                /\ rtPc = "returned"
                /\ rtResult = [filename |-> rtFilename, status |-> "skipped",
                               reason |-> "unknown file pattern"]
                /\ ~rtOpened
                /\ rtDbCalls = 0

\* C18 witness: a file named like a pattern in lower case was skipped
C18_Witness ==
    /\ rtPc = "returned"
    /\ rtResult.status = "skipped"
    /\ rtFilename = Lower(PrefixScsBidInfo) \o <<"1", ".", "j", "s", "o", "n">>

\* C19: the final results of a CLI run have status completed_with_errors
\* exactly when some file result has status error and completed otherwise,
\* however many files were skipped; a skipped file counts in total_files
\* but neither in successful nor in failed.
C19_SkippedFilesDoNotCount ==
    cliPc = "done" =>
       LET final == files["results"].doc
           With(st) == {k \in 1..Len(results) : results[k].status = st}
       IN /\ final.status \in {"completed", "completed_with_errors"}
          /\ final.status = "completed_with_errors" <=> With("error") # {}
          /\ final.total_files = Len(results)
          /\ final.successful = Cardinality(With("success"))
          /\ final.failed = Cardinality(With("error"))
          /\ final.total_files =
                final.successful + final.failed + Cardinality(With("skipped"))

\* C19 witness: a run over a skipped file and a successful one ended with
\* status completed
C19_Witness ==
    /\ cliPc = "done"
    /\ Len(results) = 2
    /\ results[1].status = "skipped"
    /\ results[2].status = "success"
    /\ files["results"].doc.status = "completed"

\* C20: initialize_session_state gives each of the seven canonical keys its
\* default only when the key is absent: a key that is present keeps its
\* value, the other keys are untouched, and a second call changes nothing.
C20_DefaultsOnlyWhenAbsent ==
    ssCalls >= 1 =>
       /\ DOMAIN session_state = DOMAIN ssBefore \cup CanonicalKeys
       /\ \A k \in CanonicalKeys \ DOMAIN ssBefore :
             session_state[k] = CanonicalDefaults[k]
       /\ \A k \in DOMAIN ssBefore : session_state[k] = ssBefore[k]
       /\ ssCalls >= 2 => session_state = ssBefore

\* C20 witness: a session that held a tab's value for one canonical key and
\* the other key, and lacked the rest, went through two calls
C20_Witness ==
    /\ ssCalls = 2
    /\ session_state["migration_in_progress"] = TabValue
    /\ session_state["migration_migrator"] = "None"
    /\ session_state["current_batch_stats"] = "[]"
    /\ OtherKey \in DOMAIN session_state
    /\ session_state[OtherKey] = TabValue

\* the messages of the lines of a file that parse, in the file's order
ParsableMessages(file) ==
    LET good == SelectSeq(file, LAMBDA line : line \in {"{\"n\": 1}", "{\"n\": 2}"})
    IN [k \in 1..Len(good) |-> IF good[k] = "{\"n\": 1}" THEN [n |-> 1] ELSE [n |-> 2]]

\* C21: on both load paths (project folder, uploaded files) a line that
\* does not parse is skipped and every line of the same file that parses
\* is loaded into the file's session: once the files are loaded, each file
\* with a parsable line has a session holding exactly its parsable lines.
C21_BadLineSkippedRestLoaded ==
    jlPath \in {"project", "upload"} =>
        \A k \in 1..Len(jlFiles) :
            ParsableMessages(jlFiles[k]) # <<>> =>
                \E i \in 1..Len(jlSessions) :
                    /\ jlSessions[i].session_id = k
                    /\ jlSessions[i].messages = ParsableMessages(jlFiles[k])

\* the runs of the input whose status is completed, in the input's order
CompletedOfInput == SelectSeq(pmRuns, LAMBDA r : r["status"] = "completed")

\* C22: calculate_performance_metrics returns exactly one row per input run
\* whose status is completed, in the input's order, and no row for a
\* running or failed run; analyze_performance_comparison returns status
\* no_data, with no ranking field, if and only if no input run is completed.
C22_RowsAreTheCompletedRuns ==
    /\ "metrics" \in pmCalled =>
          /\ Len(pmDf) = Len(CompletedOfInput)
          /\ \A i \in 1..Len(pmDf) :
                /\ pmDf[i]["test_id"] = CompletedOfInput[i]["test_id"]
                /\ "total_duration_seconds" \in DOMAIN CompletedOfInput[i] =>
                      pmDf[i]["total_duration_seconds"] =
                          CompletedOfInput[i]["total_duration_seconds"]
    /\ "analysis" \in pmCalled =>
          /\ pmAnalysis["status"] = "no_data" <=> CompletedOfInput = <<>>
          /\ pmAnalysis["status"] = "no_data" =>
                DOMAIN pmAnalysis = {"status", "message"}
          /\ pmAnalysis["status"] # "no_data" =>
                /\ pmAnalysis["status"] = "success"
                /\ pmAnalysis["total_tests"] = Len(CompletedOfInput)

\* both functions were called on three runs, two of them completed under
\* the same test id and one not completed
C22_Witness ==
    /\ pmCalled = {"metrics", "analysis"}
    /\ Len(pmRuns) = 3
    /\ \E k \in 1..3 : pmRuns[k]["status"] # "completed"
    /\ Len(pmDf) = 2
    /\ pmDf[1]["test_id"] = pmDf[2]["test_id"]
    /\ pmAnalysis["status"] = "success"

\* C23: for the same records and batch size the parallel path gives each
\* record the id the sequential path gives it, in whatever order the
\* workers run: the id a worker set for the j-th record of the b-th batch
\* is the id the sequential loop set for the record at that file position.
C23_ParallelIdsEqualSequentialIds ==
    \A b \in DOMAIN idParIds :
        \A j1 \in 1..Len(idParIds[b]) :
            (b - 1) * idBatchSize + j1 <= Len(idIds) =>
                idParIds[b][j1] = idIds[(b - 1) * idBatchSize + j1]

\* three batches; the worker of the last batch has run and the worker of
\* the first has not, and the sequential loop has prepared every record
C23_Witness ==
    /\ Len(idBatches) = 3
    /\ idParIds[3] # <<>>
    /\ idParIds[1] = <<>>
    /\ Len(idIds) = 3
    /\ idPc = "returned"

\* connection test and table creation of cloud c have both succeeded
SetupSucceeded(c) ==
    /\ "create_table" \in CallsMade(c)
    /\ ~AnsweredFalse(c, "create_table")

\* the number of batch_insert calls made for cloud c
BatchInsertCalls(c) ==
    Cardinality({k \in 1..Len(dpCalls[c]) : dpCalls[c][k].call = "batch_insert"})

\* the number of records of the k-th chunk of the data
ChunkLen(k) ==
    IF k * chunk_size <= Len(dpData) THEN chunk_size
    ELSE Len(dpData) - (k - 1) * chunk_size

\* C24: when connection test and table creation succeed,
\* process_single_cloud calls batch_insert once per chunk with chunk ids
\* 1, 2, ..., ceil(n/c) in increasing order and returns the results in that
\* order, a failed chunk not stopping the chunks after it: the k-th result
\* is that of chunk k, one call was made per result (and one for the chunk
\* in flight), and the returned list has ceil(n/c) results.
C24_OneInsertPerChunkInOrder ==
    \A c \in Clouds :
       SetupSucceeded(c) =>
          /\ \A k \in 1..Len(cloud_results[c]) :
                /\ cloud_results[c][k].chunk_id = k
                /\ cloud_results[c][k].records_count = ChunkLen(k)
          /\ BatchInsertCalls(c) =
                Len(cloud_results[c]) + (IF dpPc[c] = "insert" THEN 1 ELSE 0)
          /\ dpPc[c] = "done" =>
                Len(cloud_results[c]) * chunk_size \in
                    Len(dpData)..(Len(dpData) + chunk_size - 1)

\* C24 witness: a cloud's task has returned three results, the first of a
\* failed chunk and the last of a successful one
C24_Witness ==
    /\ SetupSucceeded("aws")
    /\ dpPc["aws"] = "done"
    /\ Len(cloud_results["aws"]) = 3
    /\ ~cloud_results["aws"][1].success
    /\ cloud_results["aws"][3].success

\* C25: during process_all_clouds at most one batch_insert of a cloud is in
\* flight at any moment and chunk k+1 of a cloud starts only after chunk k
\* of that cloud has returned; the call returns only after the task of
\* every cloud of the list has finished.
C25_OneInsertInFlightPerCloud ==
    /\ \A c \in Clouds :
          /\ Cardinality(dpInFlight[c]) <= 1
          /\ \A k \in dpInFlight[c] : Len(cloud_results[c]) = k - 1
    /\ dpAllPc = "returned" =>
          \A i \in 1..Len(dpClouds) :
             /\ dpPc[dpClouds[i]] = "done"
             /\ dpInFlight[dpClouds[i]] = {}

\* C25 witness: batch_inserts of both clouds are in flight at the same
\* time, the second chunk of one and the first of the other
C25_Witness ==
    /\ dpInFlight["aws"] = {2}
    /\ dpInFlight["gcp"] = {1}
    /\ dpAllPc = "gather"

\* the lists the tasks of this invocation returned, in the order of clouds
ResultsOfThisInvocation ==
    IF Len(dpClouds) = 0 THEN <<>>
    ELSE IF Len(dpClouds) = 1 THEN cloud_results[dpClouds[1]]
    ELSE cloud_results[dpClouds[1]] \o cloud_results[dpClouds[2]]

\* C26: after process_all_clouds returns, the processor's result list holds
\* exactly the results of this invocation, those of an earlier invocation
\* being gone, and the returned statistics have success_count +
\* failure_count = the length of that list, success_count being the number
\* of its results whose success flag is true.
C26_ResultsAndStatsOfThisInvocation ==
    (dpAllPc = "returned" /\ dpInvocations > 0) =>
       /\ dpResults = ResultsOfThisInvocation
       /\ dpStats.success_count + dpStats.failure_count = Len(dpResults)
       /\ dpStats.success_count =
             Cardinality({k \in 1..Len(dpResults) : dpResults[k].success})

\* C26 witness: the second invocation on a processor that held results has
\* returned, with a failed and a successful result
C26_Witness ==
    /\ dpAllPc = "returned"
    /\ dpInvocations = 2
    /\ dpEarlier > 0
    /\ \E k \in 1..Len(dpResults) : dpResults[k].success
    /\ \E k \in 1..Len(dpResults) : ~dpResults[k].success

\* the fields of the progress document complete_file may change
CompleteFileWrites == {"files_completed", "current_file", "last_update"}

\* C27: complete_file increases files_completed by exactly 1, sets
\* current_file to the empty string and leaves every other field of the
\* progress document but last_update as it was: the document the method
\* has after reading differs from the stored one in just that way, and that
\* document is what its write stores.
C27_CompleteFileFrame ==
    [][/\ (swOp[1].name = "complete_file" /\ swPos[1] = 1 /\ swPos'[1] = 2) =>
            /\ DOMAIN swLocal'[1] = DOMAIN files["progress"].doc
            /\ swLocal'[1]["files_completed"] =
                  files["progress"].doc["files_completed"] + 1
            /\ swLocal'[1]["current_file"] = ""
            /\ \A k \in DOMAIN files["progress"].doc \ CompleteFileWrites :
                  swLocal'[1][k] = files["progress"].doc[k]
       /\ (swOp[1].name = "complete_file" /\ swPhase[1] = "dump"
             /\ swPhase'[1] = "call") =>
            /\ files'["progress"].whole
            /\ files'["progress"].doc = swLocal[1]
            /\ files'["stats"] = files["stats"]
            /\ files'["results"] = files["results"]]_vars

\* C27 witness: complete_file has returned on a running migration whose
\* batch counter and record counter were set
C27_Witness ==
    /\ SeqReturnedFrom("complete_file")
    /\ Progress["status"] = "running"
    /\ Progress["files_completed"] = 1
    /\ Progress["current_batch"] = 1
    /\ Progress["total_records_processed"] = 1
    /\ Progress["current_file"] = ""

C29_TestIdsUnique ==
    \A i \in 1..Len(indexFile) : \A j \in 1..Len(indexFile) :
        indexFile[i].test_id = indexFile[j].test_id => i = j

\* C30: during a parallel table insert with --connections = N the number
\* of dedicated connections open at the same time never exceeds N, for any
\* number of batches.
C30_OpenConnectionsAtMostN ==
    Cardinality({k \in 1..Len(conns) : conns[k].state = "open"}) <= num_connections

=============================================================================
